---------------------------- MODULE Spec2Model ----------------------------
(***************************************************************************)
(* Regional aggregation and AI software maturity scoring pipeline.         *)
(*                                                                         *)
(*   Spec       regional_aggregation.py    (RegionalAggregator)            *)
(*   SpecRerun  the same, with run_pipeline called again on the object     *)
(*   SpecNorm   normalize_regionanalysis.py                                *)
(*   SpecScore  analysis/ai_maturity/scoring_engine.py                     *)
(*   SpecBuild  AI Software Maturity Score/extract_regional_inputs.py      *)
(*   SpecRequest Archive/scripts/regional_request_aggregator.py            *)
(*                                                                         *)
(* Python floats are modelled as exact rationals <<n, d>> in lowest terms  *)
(* with d > 0, so a result is compared by value and not by rounding.       *)
(***************************************************************************)
EXTENDS Integers, Sequences, FiniteSets, TLC

VARIABLES
    \* ---- RegionalAggregator (regional_aggregation.py) ----
    claude_csv,             \* rows of the claude.csv file on disk
    claude_data,            \* self.claude_data
    country_weights,        \* self.country_weights
    regional_results,       \* self.regional_results
    regional_usage_counts,  \* self._regional_usage_counts
    validation_results,     \* self.validation_results
    region_queue,           \* regions still to visit in aggregate_by_region's loop
    out_file,               \* regionanalysis.csv as written by save_results
    error,                  \* the exception that ended run_pipeline, or "none"
    pc,                     \* position of run_pipeline
    runs,                   \* run_pipeline calls made on the aggregator so far
    \* ---- Percentage Normalizer (normalize_regionanalysis.py) ----
    norm_file,              \* rows of regionanalysis.csv as read by load_data
    norm_df,                \* df_normalized of main()
    norm_targets,           \* normalization_targets: <<region, facets>> pairs
    norm_queue,             \* (region, facet) pairs main()'s loops still visit
    norm_validation,        \* validation_results of main()
    norm_flags,             \* the normalization_applied column
    norm_out,               \* regionanalysis_normalized.csv as written
    npc,                    \* position of main()
    \* ---- Scoring Engine (analysis/ai_maturity/scoring_engine.py) ----
    score_input,            \* data_df: the regional input table
    score_weights,          \* the weights argument (<<>> stands for None)
    score_results,          \* the DataFrame calculate_maturity_scores returns
    spc,                    \* position of the scoring script
    \* ---- Regional Input Builder (extract_regional_inputs.py) ----
    collab_csv,             \* rows of regional_collaboration_analysis.csv
    length_csv,             \* rows of onetregionalraw_with_complexity.csv
    requests_csv,           \* rows of softwareregionalrequests_with_sdlc.csv
    collab_metrics,         \* create_regional_database's collab_metrics
    efficiency_metrics,     \* its efficiency_metrics
    complexity_metrics,     \* its complexity_metrics
    inputs_file,            \* regional_inputs.csv as written
    berror,                 \* the exception that ended the script, or "none"
    bpc,                    \* position of create_regional_database
    \* ---- Request Aggregator (Archive/scripts/regional_request_aggregator.py) ----
    request_csv,            \* rows of the claude.csv file on disk
    all_data,               \* all_data of main()
    request_data,           \* request_data of main(): the request facet rows
    request_weights,        \* country_weights of main()
    regional_data,          \* the list aggregate_request_data_by_region returns
    request_out,            \* regionalrequests.csv as written by save_to_csv
    rerror,                 \* the exception that ended main(), or "none"
    rpc                     \* position of main()

aggVars == <<claude_csv, claude_data, country_weights, regional_results,
             regional_usage_counts, validation_results, region_queue,
             out_file, error, pc, runs>>

normVars == <<norm_file, norm_df, norm_targets, norm_queue, norm_validation,
              norm_flags, norm_out, npc>>

scoreVars == <<score_input, score_weights, score_results, spc>>

buildVars == <<collab_csv, length_csv, requests_csv, collab_metrics,
               efficiency_metrics, complexity_metrics, inputs_file, berror,
               bpc>>

requestVars == <<request_csv, all_data, request_data, request_weights,
                 regional_data, request_out, rerror, rpc>>

vars == <<aggVars, normVars, scoreVars, buildVars, requestVars>>

\* What each component leaves alone: the other components' state.
notAgg == <<normVars, scoreVars, buildVars, requestVars>>
notNorm == <<aggVars, scoreVars, buildVars, requestVars>>
notScore == <<aggVars, normVars, buildVars, requestVars>>
notBuild == <<aggVars, normVars, scoreVars, requestVars>>
notRequest == <<aggVars, normVars, scoreVars, buildVars>>

-----------------------------------------------------------------------------
(* Exact rational arithmetic standing in for Python float arithmetic.      *)

RECURSIVE GCD(_, _)
GCD(a, b) == IF b = 0 THEN a ELSE GCD(b, a % b)

Abs(x) == IF x < 0 THEN -x ELSE x

\* n/d in lowest terms, d > 0.
Rat(n, d) ==
    LET s == IF d < 0 THEN -1 ELSE 1
        g == GCD(Abs(n), Abs(d))
    IN  <<(s * n) \div g, (s * d) \div g>>

RInt(k) == <<k, 1>>
RAdd(x, y) == Rat(x[1] * y[2] + y[1] * x[2], x[2] * y[2])
RSub(x, y) == Rat(x[1] * y[2] - y[1] * x[2], x[2] * y[2])
RMul(x, y) == Rat(x[1] * y[1], x[2] * y[2])
RDiv(x, y) == Rat(x[1] * y[2], x[2] * y[1])
RLt(x, y) == x[1] * y[2] < y[1] * x[2]
RLe(x, y) == x[1] * y[2] <= y[1] * x[2]
RAbs(x) == <<Abs(x[1]), x[2]>>

RECURSIVE RSum(_)
RSum(s) == IF s = <<>> THEN RInt(0) ELSE RAdd(Head(s), RSum(Tail(s)))

RECURSIVE Sum(_)
Sum(s) == IF s = <<>> THEN 0 ELSE Head(s) + Sum(Tail(s))

\* Python's insertion-ordered dict keys: the distinct elements of s in order
\* of first appearance.
RECURSIVE Dedup(_)
Dedup(s) ==
    IF s = <<>> THEN <<>>
    ELSE LET h == Head(s)
         IN  <<h>> \o Dedup(SelectSeq(Tail(s), LAMBDA x : x # h))

Range(s) == {s[i] : i \in 1..Len(s)}

\* The element of a one-element set; {f(x) : x \in {e}} computes e once, the
\* way an assignment to a local variable does.
TheOne(S) == CHOOSE x \in S : TRUE

Map(s, F(_)) == [i \in 1..Len(s) |-> F(s[i])]

-----------------------------------------------------------------------------
(* Input space of the aggregator.                                          *)

\* Largest number of onet_task / collaboration / other rows in claude.csv.
MaxFacetRows == 2

\* Largest number of run_pipeline calls on one aggregator.
MaxRuns == 2

Regions == {"R1", "R2"}
Geos == {"a", "b", "c"}

\* The region column add_regions wrote for each country.
RegionOf == [g \in Geos |-> IF g = "c" THEN "R2" ELSE "R1"]

\* usage_count values offered for each country's country-facet row;
\* -1 stands for "the file has no such row".
WeightChoices == [g \in Geos |->
    CASE g = "a" -> {-1, 0, 1}
      [] g = "b" -> {-1, 3}
      [] OTHER   -> {-1, 2}]

PctValues == {50, 70}

Row(g, f, l, v, c, x) ==
    [region |-> RegionOf[g], geo_id |-> g, facet |-> f, level |-> l,
     variable |-> v, cluster_name |-> c, value |-> x]

CountryRows(w) ==
    LET one(g) == IF w[g] = -1 THEN <<>>
                  ELSE <<Row(g, "country", 0, "usage_count", "", w[g])>>
    IN  one("a") \o one("b") \o one("c")

FacetRowSpace ==
    {Row(g, "onet_task", l, "onet_task_pct", "x", x) :
        g \in Geos, l \in {0, 1}, x \in PctValues}
    \cup {Row(g, "onet_task", 0, "onet_task_count", "x", x) :
        g \in Geos, x \in PctValues}
    \cup {Row("a", "collaboration", 0, "collaboration_pct", "none", 50),
          Row("a", "request", 0, "request_pct", "x", 50)}

FacetSeqs == UNION {[1..n -> FacetRowSpace] : n \in 0..MaxFacetRows}


-----------------------------------------------------------------------------
(* RegionalAggregator: pure parts.                                         *)

target_facets == {"country", "onet_task", "collaboration"}

\* variable.endswith('_count') over the variable names of the input space.
EndsWithCount(v) == v \in {"usage_count", "onet_task_count", "request_count"}

\* variable.endswith('_pct')
EndsWithPct(v) ==
    v \in {"usage_pct", "onet_task_pct", "collaboration_pct", "request_pct"}

RECURSIVE Concat(_)
Concat(ss) == IF ss = <<>> THEN <<>> ELSE Head(ss) \o Concat(Tail(ss))

\* self.country_weights.get(geo_id, 0)
WeightGet(cw, g) == IF g \in DOMAIN cw THEN cw[g] ELSE 0

\* Variant: without any country usage_count row every country of the data
\* gets the weight 1.
CountryWeightsOf_UniformDefault(rows, cw) ==
    LET wrows == SelectSeq(rows, LAMBDA r :
                     r.facet = "country" /\ r.variable = "usage_count")
        last(g) == CHOOSE j \in 1..Len(wrows) :
                       /\ wrows[j].geo_id = g
                       /\ \A k \in j + 1..Len(wrows) : wrows[k].geo_id # g
    IN  IF wrows = <<>>
        THEN [g \in {rows[j].geo_id : j \in 1..Len(rows)} |-> 1] @@ cw
        ELSE [g \in {wrows[j].geo_id : j \in 1..Len(wrows)} |->
                 wrows[last(g)].value] @@ cw

\* The loop of extract_country_weights: a later row overwrites an earlier one.
RECURSIVE CountryWeightsOf(_, _)
CountryWeightsOf(rows, cw) ==
    IF rows = <<>> THEN cw
    ELSE LET r == Head(rows)
         IN  IF r.facet = "country" /\ r.variable = "usage_count"
             THEN CountryWeightsOf(Tail(rows), (r.geo_id :> r.value) @@ cw)
             ELSE CountryWeightsOf(Tail(rows), cw)

EmptyDict == [x \in {} |-> 0]

CountryFacetData(region_data) ==
    SelectSeq(region_data, LAMBDA r : r.facet = "country")

\* The records aggregate_country_facet returns.
aggregate_country_facet(region_data, region_name) ==
    LET cfd == CountryFacetData(region_data)
        var_data == SelectSeq(cfd, LAMBDA r : r.variable = "usage_count")
        total_value == Sum(Map(var_data, LAMBDA r : r.value))
        contributing == Map(var_data, LAMBDA r : r.geo_id)
    IN  IF var_data = <<>> THEN <<>>
        ELSE <<[region |-> region_name, facet |-> "country",
                level |-> var_data[1].level, variable |-> "usage_count",
                cluster_name |-> "", value |-> RInt(total_value),
                calculation_method |-> "sum",
                contributing_countries |-> contributing,
                regional_weight |-> RInt(Len(contributing))]>>

\* What aggregate_country_facet leaves in self._regional_usage_counts.
CountryFacetUsageCounts(region_data, region_name, counts) ==
    LET cfd == CountryFacetData(region_data)
        var_data == SelectSeq(cfd, LAMBDA r : r.variable = "usage_count")
    IN  IF cfd = <<>> THEN counts
        ELSE (region_name :> Sum(Map(var_data, LAMBDA r : r.value))) @@ counts

\* The rows of a group that pass `if weight > 0`.
PositiveRows(group, cw) ==
    SelectSeq(group, LAMBDA r : WeightGet(cw, r.geo_id) > 0)

\* Variant: the weights are dropped from the numerator.
WeightedTotal_Unweighted(used, cw) ==
    Sum(Map(used, LAMBDA r : r.value))

\* sum(val * weight for val, weight in zip(values, weights))
WeightedTotal(used, cw) ==
    Sum(Map(used, LAMBDA r : r.value * WeightGet(cw, r.geo_id)))

\* Variant: _count variables are averaged like percentages.
GroupValue_PlainAverage(variable, used, region_data, cw) ==
    [method |-> IF EndsWithCount(variable) THEN "weighted_sum"
                ELSE "weighted_average",
     value |-> Rat(WeightedTotal(used, cw),
                   Sum(Map(used, LAMBDA r : WeightGet(cw, r.geo_id))))]

\* Variant: the weighted total is divided by the number of rows.
GroupValue_DivideByCount(variable, used, region_data, cw) ==
    [method |-> IF EndsWithCount(variable) THEN "weighted_sum"
                ELSE "weighted_average",
     value |-> Rat(WeightedTotal(used, cw), Len(used))]

\* The value and method chosen for one group with at least one positive weight.
GroupValue(variable, used, region_data, cw) ==
    LET total_weight == Sum(Map(used, LAMBDA r : WeightGet(cw, r.geo_id)))
        num == WeightedTotal(used, cw)
        region_geo_ids == Dedup(Map(region_data, LAMBDA r : r.geo_id))
        regional_total_weight ==
            Sum(Map(region_geo_ids, LAMBDA g : WeightGet(cw, g)))
    IN  IF EndsWithCount(variable)
        THEN [method |-> "weighted_sum",
              value |-> IF regional_total_weight > 0
                        THEN RMul(Rat(num, regional_total_weight),
                                  RInt(total_weight))
                        ELSE Rat(num, total_weight)]
        ELSE [method |-> "weighted_average",
              value |-> Rat(num, total_weight)]

\* Variant: a group without any positive weight is emitted with value 0.
GroupRecord_ZeroForEmpty(key, facet_data, region_data, region_name, facet_name, cw) ==
    LET group == SelectSeq(facet_data,
                     LAMBDA r : <<r.variable, r.cluster_name>> = key)
        used == PositiveRows(group, cw)
    IN  <<[region |-> region_name, facet |-> facet_name,
           level |-> group[1].level, variable |-> key[1],
           cluster_name |-> key[2],
           value |-> IF used = <<>> THEN RInt(0)
                     ELSE GroupValue(key[1], used, region_data, cw).value,
           calculation_method |-> IF used = <<>> THEN "weighted_average"
                     ELSE GroupValue(key[1], used, region_data, cw).method,
           contributing_countries |-> Map(used, LAMBDA r : r.geo_id),
           regional_weight |->
               RInt(Sum(Map(used, LAMBDA r : WeightGet(cw, r.geo_id))))]>>

\* Variant: a group without a positive weight falls back to the plain mean
\* of its rows.
GroupRecord_UnweightedFallback(key, facet_data, region_data, region_name, facet_name, cw) ==
    LET group == SelectSeq(facet_data,
                     LAMBDA r : <<r.variable, r.cluster_name>> = key)
        used == PositiveRows(group, cw)
    IN  IF used = <<>>
        THEN <<[region |-> region_name, facet |-> facet_name,
                level |-> group[1].level, variable |-> key[1],
                cluster_name |-> key[2],
                value |-> Rat(Sum(Map(group, LAMBDA r : r.value)), Len(group)),
                calculation_method |-> "weighted_average",
                contributing_countries |-> Map(group, LAMBDA r : r.geo_id),
                regional_weight |-> RInt(0)]>>
        ELSE <<[region |-> region_name, facet |-> facet_name,
                level |-> group[1].level, variable |-> key[1],
                cluster_name |-> key[2],
                value |-> GroupValue(key[1], used, region_data, cw).value,
                calculation_method |->
                    GroupValue(key[1], used, region_data, cw).method,
                contributing_countries |-> Map(used, LAMBDA r : r.geo_id),
                regional_weight |->
                    RInt(Sum(Map(used, LAMBDA r : WeightGet(cw, r.geo_id))))]>>

\* One iteration of `for (variable, cluster_name), group in groups.items()`.
GroupRecord(key, facet_data, region_data, region_name, facet_name, cw) ==
    LET group == SelectSeq(facet_data,
                     LAMBDA r : <<r.variable, r.cluster_name>> = key)
        used == PositiveRows(group, cw)
        gv == GroupValue(key[1], used, region_data, cw)
    IN  IF used = <<>> THEN <<>>
        ELSE <<[region |-> region_name, facet |-> facet_name,
                level |-> group[1].level, variable |-> key[1],
                cluster_name |-> key[2], value |-> gv.value,
                calculation_method |-> gv.method,
                contributing_countries |-> Map(used, LAMBDA r : r.geo_id),
                regional_weight |->
                    RInt(Sum(Map(used, LAMBDA r : WeightGet(cw, r.geo_id))))]>>

\* Variant: the groups are keyed by level as well.
aggregate_weighted_facet_KeyedByLevel(region_data, region_name, facet_name, cw) ==
    LET facet_data == SelectSeq(region_data, LAMBDA r : r.facet = facet_name)
        keys == Dedup(Map(facet_data,
                          LAMBDA r : <<r.level, r.variable, r.cluster_name>>))
    IN  Concat(Map(keys, LAMBDA k :
            GroupRecord(<<k[2], k[3]>>,
                        SelectSeq(facet_data, LAMBDA r : r.level = k[1]),
                        region_data, region_name, facet_name, cw)))

aggregate_weighted_facet(region_data, region_name, facet_name, cw) ==
    LET facet_data == SelectSeq(region_data, LAMBDA r : r.facet = facet_name)
        keys == Dedup(Map(facet_data,
                          LAMBDA r : <<r.variable, r.cluster_name>>))
    IN  Concat(Map(keys, LAMBDA k :
            GroupRecord(k, facet_data, region_data, region_name,
                        facet_name, cw)))

\* sum(d.values())
RECURSIVE DictTotal(_)
DictTotal(d) ==
    IF DOMAIN d = {} THEN 0
    ELSE LET k == CHOOSE k \in DOMAIN d : TRUE
         IN  d[k] + DictTotal([j \in DOMAIN d \ {k} |-> d[j]])

\* Variant: the share is left as a fraction of 1.
UsagePctRecords_Fraction(results, counts) ==
    LET total == DictTotal(counts)
        src == SelectSeq(results, LAMBDA r :
                   r.facet = "country" /\ r.variable = "usage_count")
    IN  IF total = 0 THEN <<>>
        ELSE Map(src, LAMBDA r :
                 [region |-> r.region, facet |-> "country", level |-> r.level,
                  variable |-> "usage_pct", cluster_name |-> "",
                  value |-> RDiv(r.value, RInt(total)),
                  calculation_method |-> "recalculated_percentage",
                  contributing_countries |-> r.contributing_countries,
                  regional_weight |-> r.value])

\* Variant: a zero global total yields usage_pct records of value 0.
UsagePctRecords_ZeroTotalAsZero(results, counts) ==
    LET total == DictTotal(counts)
        src == SelectSeq(results, LAMBDA r :
                   r.facet = "country" /\ r.variable = "usage_count")
    IN  Map(src, LAMBDA r :
            [region |-> r.region, facet |-> "country", level |-> r.level,
             variable |-> "usage_pct", cluster_name |-> "",
             value |-> IF total = 0 THEN RInt(0)
                       ELSE RMul(RDiv(r.value, RInt(total)), RInt(100)),
             calculation_method |-> "recalculated_percentage",
             contributing_countries |-> r.contributing_countries,
             regional_weight |-> r.value])

\* The usage_pct records calculate_country_facet_percentages appends.
UsagePctRecords(results, counts) ==
    LET total == DictTotal(counts)
        src == SelectSeq(results, LAMBDA r :
                   r.facet = "country" /\ r.variable = "usage_count")
    IN  IF total = 0 THEN <<>>
        ELSE Map(src, LAMBDA r :
                 [region |-> r.region, facet |-> "country", level |-> r.level,
                  variable |-> "usage_pct", cluster_name |-> "",
                  value |-> RMul(RDiv(r.value, RInt(total)), RInt(100)),
                  calculation_method |-> "recalculated_percentage",
                  contributing_countries |-> r.contributing_countries,
                  regional_weight |-> r.value])

\* The validation_issues list validate_results builds.
ValidationIssues(results, data) ==
    LET regions == Dedup(Map(results, LAMBDA r : r.region))
        pct(reg, f) == SelectSeq(results, LAMBDA r :
                          r.region = reg /\ r.facet = f
                          /\ EndsWithPct(r.variable))
        off(rows, tol) ==
            RLt(RInt(tol),
                RAbs(RSub(RSum(Map(rows, LAMBDA r : r.value)), RInt(100))))
        facetIssue(reg, f) ==
            IF pct(reg, f) # <<>> /\ off(pct(reg, f), 5)
            THEN <<[kind |-> "facet_sum", region |-> reg, facet |-> f]>>
            ELSE <<>>
        country_pct == SelectSeq(results, LAMBDA r :
                          r.facet = "country" /\ r.variable = "usage_pct")
        missing == Range(Map(data, LAMBDA r : r.region))
                       \ Range(Map(results, LAMBDA r : r.region))
    IN  Concat(Map(regions, LAMBDA reg :
            facetIssue(reg, "collaboration") \o facetIssue(reg, "onet_task")))
        \o (IF country_pct # <<>> /\ off(country_pct, 1)
            THEN <<[kind |-> "global_sum", region |-> "", facet |-> "country"]>>
            ELSE <<>>)
        \o (IF missing # {}
            THEN <<[kind |-> "missing_regions", region |-> "", facet |-> ""]>>
            ELSE <<>>)

-----------------------------------------------------------------------------
(* RegionalAggregator.run_pipeline, one action per stage; the loop of      *)
(* aggregate_by_region takes one step per region.                          *)

NoValidation == [total_records |-> 0, validation_issues |-> <<>>,
                 percentage_validation_passed |-> FALSE]

NoFile == [written |-> FALSE, rows |-> <<>>, status |-> ""]

WeightChoiceFns ==
    {w \in [Geos -> {-1, 0, 1, 2, 3}] : \A g \in Geos : w[g] \in WeightChoices[g]}

AggInit ==
    /\ claude_csv \in {CountryRows(w) \o f : w \in WeightChoiceFns, f \in FacetSeqs}
    /\ claude_data = <<>>
    /\ country_weights = EmptyDict
    /\ regional_results = <<>>
    /\ regional_usage_counts = EmptyDict
    /\ validation_results = NoValidation
    /\ region_queue = <<>>
    /\ out_file = NoFile
    /\ error = "none"
    /\ pc = "new"
    /\ runs = 1

\* The aggregator object does not exist in a run of another component.
AggIdle ==
    /\ claude_csv = <<>>
    /\ claude_data = <<>>
    /\ country_weights = EmptyDict
    /\ regional_results = <<>>
    /\ regional_usage_counts = EmptyDict
    /\ validation_results = NoValidation
    /\ region_queue = <<>>
    /\ out_file = NoFile
    /\ error = "none"
    /\ pc = "idle"
    /\ runs = 0

load_data ==
    /\ pc = "new"
    /\ claude_data' = SelectSeq(claude_csv, LAMBDA r : r.facet \in target_facets)
    /\ IF claude_data' = <<>>
       THEN pc' = "failed" /\ error' = "ValueError: No data found with target facets"
       ELSE pc' = "loaded" /\ error' = error
    /\ UNCHANGED <<runs, claude_csv, country_weights, regional_results,
                   regional_usage_counts, validation_results, region_queue,
                   out_file>>
    /\ UNCHANGED notAgg

extract_country_weights ==
    /\ pc = "loaded"
    /\ country_weights' = CountryWeightsOf(claude_data, country_weights)
    /\ IF DOMAIN country_weights' = {}
       THEN pc' = "failed"
            /\ error' = "ValueError: No country usage_count data found for weighting"
       ELSE pc' = "weighted" /\ error' = error
    /\ UNCHANGED <<runs, claude_csv, claude_data, regional_results,
                   regional_usage_counts, validation_results, region_queue,
                   out_file>>
    /\ UNCHANGED notAgg

\* aggregate_by_region up to the start of its loop over regions.
aggregate_by_region_begin ==
    /\ pc = "weighted"
    /\ regional_usage_counts' = EmptyDict
    /\ region_queue' = Dedup(Map(claude_data, LAMBDA r : r.region))
    /\ pc' = "aggregating"
    /\ UNCHANGED <<runs, claude_csv, claude_data, country_weights, regional_results,
                   validation_results, out_file, error>>
    /\ UNCHANGED notAgg

\* Variant: each region's usage_pct is appended as soon as the region is
\* aggregated, against the usage counts seen so far.
aggregate_region_WithPercentages ==
    /\ pc = "aggregating"
    /\ region_queue # <<>>
    /\ LET region_name == Head(region_queue)
           region_data == SelectSeq(claude_data, LAMBDA r : r.region = region_name)
           counts == CountryFacetUsageCounts(region_data, region_name,
                                             regional_usage_counts)
           country == aggregate_country_facet(region_data, region_name)
       IN  /\ regional_results' = regional_results
                  \o country
                  \o UsagePctRecords(country, counts)
                  \o aggregate_weighted_facet(region_data, region_name,
                                              "onet_task", country_weights)
                  \o aggregate_weighted_facet(region_data, region_name,
                                              "collaboration", country_weights)
           /\ regional_usage_counts' = counts
    /\ region_queue' = Tail(region_queue)
    /\ UNCHANGED <<runs, claude_csv, claude_data, country_weights,
                   validation_results, out_file, error, pc>>
    /\ UNCHANGED notAgg

\* One iteration of `for region_name, region_data in regions.items()`.
aggregate_region ==
    /\ pc = "aggregating"
    /\ region_queue # <<>>
    /\ LET region_name == Head(region_queue)
           region_data == SelectSeq(claude_data, LAMBDA r : r.region = region_name)
       IN  /\ regional_results' = regional_results
                  \o aggregate_country_facet(region_data, region_name)
                  \o aggregate_weighted_facet(region_data, region_name,
                                              "onet_task", country_weights)
                  \o aggregate_weighted_facet(region_data, region_name,
                                              "collaboration", country_weights)
           /\ regional_usage_counts' =
                  CountryFacetUsageCounts(region_data, region_name,
                                          regional_usage_counts)
    /\ region_queue' = Tail(region_queue)
    /\ UNCHANGED <<runs, claude_csv, claude_data, country_weights,
                   validation_results, out_file, error, pc>>
    /\ UNCHANGED notAgg

\* The call that ends aggregate_by_region.
calculate_country_facet_percentages ==
    /\ pc = "aggregating"
    /\ region_queue = <<>>
    /\ regional_results' = regional_results
           \o UsagePctRecords(regional_results, regional_usage_counts)
    /\ pc' = "aggregated"
    /\ UNCHANGED <<runs, claude_csv, claude_data, country_weights,
                   regional_usage_counts, validation_results, region_queue,
                   out_file, error>>
    /\ UNCHANGED notAgg

validate_results ==
    /\ pc = "aggregated"
    /\ LET issues == ValidationIssues(regional_results, claude_data)
       IN  validation_results' =
               [total_records |-> Len(regional_results),
                validation_issues |-> issues,
                percentage_validation_passed |-> (issues = <<>>)]
    /\ pc' = "validated"
    /\ UNCHANGED <<runs, claude_csv, claude_data, country_weights, regional_results,
                   regional_usage_counts, region_queue, out_file, error>>
    /\ UNCHANGED notAgg

\* Variant: the files are written after a failed run as well.
save_results_AfterFailure ==
    /\ pc \in {"validated", "failed"}
    /\ out_file' = [written |-> TRUE, rows |-> regional_results,
                    status |-> IF validation_results.percentage_validation_passed
                               THEN "PASSED" ELSE "FAILED"]
    /\ pc' = IF pc = "failed" THEN "failed" ELSE "saved"
    /\ UNCHANGED <<runs, claude_csv, claude_data, country_weights,
                   regional_results, regional_usage_counts,
                   validation_results, region_queue, error>>
    /\ UNCHANGED notAgg

save_results ==
    /\ pc = "validated"
    /\ out_file' = [written |-> TRUE, rows |-> regional_results,
                    status |-> IF validation_results.percentage_validation_passed
                               THEN "PASSED" ELSE "FAILED"]
    /\ pc' = "saved"
    /\ UNCHANGED <<runs, claude_csv, claude_data, country_weights, regional_results,
                   regional_usage_counts, validation_results, region_queue,
                   error>>
    /\ UNCHANGED notAgg

\* run_pipeline is called once more on the same aggregator with the same
\* files: every attribute keeps what the previous call left in it.
run_pipeline_again ==
    /\ pc = "saved"
    /\ runs < MaxRuns
    /\ runs' = runs + 1
    /\ pc' = "new"
    /\ UNCHANGED <<claude_csv, claude_data, country_weights, regional_results,
                   regional_usage_counts, validation_results, region_queue,
                   out_file, error>>
    /\ UNCHANGED notAgg

AggNext ==
    \/ load_data
    \/ extract_country_weights
    \/ aggregate_by_region_begin
    \/ aggregate_region
    \/ calculate_country_facet_percentages
    \/ validate_results
    \/ save_results

-----------------------------------------------------------------------------
(* Properties of the aggregator.                                           *)

\* Sum of f over the finite set S.
RECURSIVE FSum(_, _)
FSum(f, S) ==
    IF S = {} THEN 0
    ELSE LET x == CHOOSE x \in S : TRUE
         IN  f[x] + FSum(f, S \ {x})

WeightedFacets == {"onet_task", "collaboration"}

\* Indexes of the loaded rows that fall in the (region, facet, variable,
\* cluster_name) group of record r.
GroupIdx(r) ==
    {j \in 1..Len(claude_data) :
        /\ claude_data[j].region = r.region
        /\ claude_data[j].facet = r.facet
        /\ claude_data[j].variable = r.variable
        /\ claude_data[j].cluster_name = r.cluster_name}

\* Those of them whose country has a strictly positive weight-table entry.
PositiveIdx(r) ==
    {j \in GroupIdx(r) :
        /\ claude_data[j].geo_id \in DOMAIN country_weights
        /\ country_weights[claude_data[j].geo_id] > 0}

IdxWeight(I) == FSum([j \in I |-> country_weights[claude_data[j].geo_id]], I)

IdxWeighted(I) ==
    FSum([j \in I |-> claude_data[j].value
                          * country_weights[claude_data[j].geo_id]], I)

IdxPlain(I) == FSum([j \in I |-> claude_data[j].value], I)

Results == Range(regional_results)

\* C1: every record emitted by aggregate_weighted_facet for a percentage-like
\* variable has value sum(value_i * weight_i) / sum(weight_i), both sums taken
\* over exactly the rows of its group whose country has a strictly positive
\* weight; rows with zero or missing weight enter neither sum.
C1_WeightedAverage ==
    \A r \in Results :
        (r.facet \in WeightedFacets /\ ~EndsWithCount(r.variable)) =>
            LET I == PositiveIdx(r)
            IN  /\ IdxWeight(I) > 0
                /\ r.value[1] * IdxWeight(I) = IdxWeighted(I) * r.value[2]
                /\ r.calculation_method = "weighted_average"

\* Weights [1,3] with values [50,70] were aggregated to 65.
C1_Witness ==
    \E r \in Results :
        /\ r.calculation_method = "weighted_average"
        /\ r.contributing_countries = <<"a", "b">>
        /\ r.regional_weight = RInt(4)
        /\ r.value = RInt(65)
        /\ \E j \in GroupIdx(r) : claude_data[j].value = 50

\* A non-empty percentage-like group of the loaded data all of whose
\* countries have a zero or missing weight.
ZeroWeightGroups ==
    {k \in {[region |-> x.region, facet |-> x.facet, variable |-> x.variable,
             cluster_name |-> x.cluster_name] : x \in Range(claude_data)} :
        /\ k.facet \in WeightedFacets
        /\ ~EndsWithCount(k.variable)
        /\ PositiveIdx(k) = {}}

PositiveWeightGroups ==
    {k \in {[region |-> x.region, facet |-> x.facet, variable |-> x.variable,
             cluster_name |-> x.cluster_name] : x \in Range(claude_data)} :
        /\ k.facet \in WeightedFacets
        /\ PositiveIdx(k) # {}}

HasRecord(k, rows) ==
    \E r \in Range(rows) :
        /\ r.region = k.region /\ r.facet = k.facet
        /\ r.variable = k.variable /\ r.cluster_name = k.cluster_name

AfterAggregation == pc \in {"aggregated", "validated", "saved"}

C3_Original ==
    \A r \in Results :
        EndsWithCount(r.variable) =>
            /\ r.calculation_method = "sum"
            /\ r.value = RInt(IdxPlain(GroupIdx(r)))

\* C3 amended: the country facet's usage_count record is the plain sum of the
\* region's country values with calculation_method "sum"; a _count variable
\* of the onet_task or collaboration facet is instead a "weighted_sum":
\* sum(value_i * weight_i) / W * sum(weight_i) over the positive-weight rows
\* of the group, W being the total weight of the region's countries.
C3_CountAggregation ==
    \A r \in Results :
        EndsWithCount(r.variable) =>
            IF r.facet = "country"
            THEN /\ r.calculation_method = "sum"
                 /\ r.value = RInt(IdxPlain(GroupIdx(r)))
            ELSE LET I == PositiveIdx(r)
                     G == {claude_data[j].geo_id : j \in
                              {j \in 1..Len(claude_data) :
                                  claude_data[j].region = r.region}}
                     W == FSum([g \in G |-> WeightGet(country_weights, g)], G)
                 IN  /\ r.calculation_method = "weighted_sum"
                     /\ W > 0
                     /\ r.value[1] * W = IdxWeighted(I) * IdxWeight(I) * r.value[2]

\* A summed usage_count record of two countries next to a weighted_sum
\* record whose value is not the plain sum of its group.
C3_Witness ==
    /\ \E r \in Results :
           /\ r.calculation_method = "sum"
           /\ Len(r.contributing_countries) = 2
    /\ \E r \in Results :
           /\ r.calculation_method = "weighted_sum"
           /\ r.value # RInt(IdxPlain(GroupIdx(r)))

HasWeightRows ==
    \E j \in 1..Len(claude_data) :
        /\ claude_data[j].facet = "country"
        /\ claude_data[j].variable = "usage_count"

NoWeightsError == "ValueError: No country usage_count data found for weighting"

\* C11: when the loaded data has no row with facet country and variable
\* usage_count, extract_country_weights ends the run with an error: the run
\* never gets past it, so aggregate_by_region is not entered and nothing is
\* aggregated or saved.  Whenever the run does get past it, the weight table
\* is non-empty and every entry is a value read from such a row, never a
\* default.
C11_NoWeightsFails ==
    /\ (claude_data # <<>> /\ ~HasWeightRows /\ pc \notin {"new", "loaded"}) =>
           /\ pc = "failed"
           /\ error = NoWeightsError
           /\ country_weights = EmptyDict
           /\ region_queue = <<>>
           /\ regional_results = <<>>
           /\ regional_usage_counts = EmptyDict
           /\ ~out_file.written
    /\ pc \in {"weighted", "aggregating", "aggregated", "validated", "saved"} =>
           /\ DOMAIN country_weights # {}
           /\ \A g \in DOMAIN country_weights :
                  \E j \in 1..Len(claude_data) :
                      /\ claude_data[j].facet = "country"
                      /\ claude_data[j].variable = "usage_count"
                      /\ claude_data[j].geo_id = g
                      /\ claude_data[j].value = country_weights[g]

\* Facet rows were loaded, none of them a country usage_count row, and the
\* run ended in extract_country_weights.
C11_Witness ==
    /\ pc = "failed"
    /\ error = NoWeightsError
    /\ claude_data # <<>>
    /\ ~HasWeightRows

\* C12 as stated: after aggregate_by_region has run again in a further
\* run_pipeline call on the same aggregator and the same files,
\* regional_results equals what the previous call produced, which is what
\* that call's save_results wrote to regionanalysis.csv.
C12_Original ==
    (runs >= 2 /\ pc \in {"aggregated", "validated"}) =>
        regional_results = out_file.rows

\* C16: the value of every weighted_average record lies between the smallest
\* and the largest value of the rows that contributed to it, which are the
\* rows of its group whose country has a positive weight.
C16_AverageWithinMinMax ==
    \A r \in Results :
        r.calculation_method = "weighted_average" =>
            LET I == PositiveIdx(r)
            IN  /\ I # {}
                /\ {claude_data[j].geo_id : j \in I}
                       = Range(r.contributing_countries)
                /\ \E j \in I :
                       /\ \A k \in I : claude_data[j].value <= claude_data[k].value
                       /\ claude_data[j].value * r.value[2] <= r.value[1]
                /\ \E j \in I :
                       /\ \A k \in I : claude_data[k].value <= claude_data[j].value
                       /\ r.value[1] <= claude_data[j].value * r.value[2]

\* Values 70 and 50 with weights 1 and 3 were averaged to 55, strictly
\* between the two.
C16_Witness ==
    \E r \in Results :
        /\ r.calculation_method = "weighted_average"
        /\ r.value = RInt(55)
        /\ \E j, k \in PositiveIdx(r) :
               /\ claude_data[j].value = 70 /\ claude_data[j].geo_id = "a"
               /\ claude_data[k].value = 50 /\ claude_data[k].geo_id = "b"

UsageIdx ==
    {j \in 1..Len(claude_data) :
        /\ claude_data[j].facet = "country"
        /\ claude_data[j].variable = "usage_count"}

RegionUsage(reg) == IdxPlain({j \in UsageIdx : claude_data[j].region = reg})

GlobalUsage == IdxPlain(UsageIdx)

UsagePctIdx ==
    {i \in 1..Len(regional_results) :
        /\ regional_results[i].facet = "country"
        /\ regional_results[i].variable = "usage_pct"}

\* Sum of the values of the records of rows at the indexes I.
RECURSIVE ValueSum(_, _)
ValueSum(rows, I) ==
    IF I = {} THEN RInt(0)
    ELSE LET i == CHOOSE i \in I : TRUE
         IN  RAdd(rows[i].value, ValueSum(rows, I \ {i}))

\* C17: after aggregate_by_region every usage_pct record of the country
\* facet has calculation_method recalculated_percentage and value
\* 100 * (usage_count summed over the region's countries) / (usage_count
\* summed over all countries); when that global total is not 0 each region
\* with usage_count rows has exactly one such record and their values sum
\* to 100, and when it is 0 there is none.
C17_UsagePctOfGlobalTotal ==
    AfterAggregation =>
        /\ \A i \in UsagePctIdx :
               /\ regional_results[i].calculation_method = "recalculated_percentage"
               /\ GlobalUsage # 0
               /\ regional_results[i].value =
                      Rat(100 * RegionUsage(regional_results[i].region), GlobalUsage)
        /\ GlobalUsage # 0 =>
               /\ \A j \in UsageIdx :
                      Cardinality({i \in UsagePctIdx :
                          regional_results[i].region = claude_data[j].region}) = 1
               /\ ValueSum(regional_results, UsagePctIdx) = RInt(100)
        /\ GlobalUsage = 0 => UsagePctIdx = {}

\* Two regions share the global total unevenly.
C17_Witness ==
    /\ AfterAggregation
    /\ \E i, k \in UsagePctIdx :
           /\ regional_results[i].region = "R1"
           /\ regional_results[k].region = "R2"
           /\ regional_results[i].value = RInt(60)
           /\ regional_results[k].value = RInt(40)

\* C18: the output files exist only in a run that has passed load_data,
\* extract_country_weights, aggregate_by_region and validate_results without
\* an error: a failed run has written nothing, and the only step that writes
\* is save_results, taken after validate_results has returned.
C18_NoOutputOnFailure ==
    /\ [](pc = "failed" => out_file = NoFile)
    /\ [](out_file.written =>
              /\ pc = "saved"
              /\ error = "none"
              /\ claude_data # <<>>
              /\ DOMAIN country_weights # {}
              /\ region_queue = <<>>
              /\ validation_results.total_records = Len(regional_results)
              /\ out_file.rows = regional_results)
    /\ [][out_file' # out_file => (pc = "validated" /\ pc' = "saved")]_vars

\* One run failed in extract_country_weights with nothing written.
C18_Witness ==
    /\ pc = "failed"
    /\ error = NoWeightsError
    /\ claude_data # <<>>
    /\ out_file = NoFile

Key4(x) == <<x.region, x.facet, x.variable, x.cluster_name>>

Key5(x) == <<x.region, x.facet, x.level, x.variable, x.cluster_name>>

\* Loaded rows that can contribute to a record: country rows, and rows of
\* the weighted facets whose country has a positive weight.
ContributingIdx ==
    {j \in 1..Len(claude_data) :
        \/ j \in UsageIdx
        \/ /\ claude_data[j].facet \in WeightedFacets
           /\ WeightGet(country_weights, claude_data[j].geo_id) > 0}

\* C20 as stated: each (region, facet, level, variable, cluster_name) key of
\* the contributing input rows has exactly one record.
C20_Original ==
    AfterAggregation =>
        \A j \in ContributingIdx :
            Cardinality({i \in 1..Len(regional_results) :
                Key5(regional_results[i]) = Key5(claude_data[j])}) = 1

\* C20 amended: the records are keyed by (region, facet, variable,
\* cluster_name), without the level.  After aggregate_by_region no two
\* records share that key; each such key of the contributing input rows has
\* exactly one record, whose level is that of the first loaded row of the
\* group, so rows of the group at other levels are merged into it; and a
\* record of the weighted facets exists only for a key with a contributing
\* row.
C20_OneRecordPerGroup ==
    AfterAggregation =>
        /\ \A i, k \in 1..Len(regional_results) :
               Key4(regional_results[i]) = Key4(regional_results[k]) => i = k
        /\ \A j \in ContributingIdx :
               \E i \in 1..Len(regional_results) :
                   /\ Key4(regional_results[i]) = Key4(claude_data[j])
                   /\ \E f \in GroupIdx(claude_data[j]) :
                          /\ \A g \in GroupIdx(claude_data[j]) : f <= g
                          /\ regional_results[i].level = claude_data[f].level
        /\ \A i \in 1..Len(regional_results) :
               regional_results[i].facet \in WeightedFacets =>
                   \E j \in ContributingIdx :
                       Key4(claude_data[j]) = Key4(regional_results[i])

\* Two contributing rows of one group at levels 0 and 1 ended in a single
\* record.
C20_Witness ==
    /\ AfterAggregation
    /\ \E j, k \in ContributingIdx :
           /\ claude_data[j].facet = "onet_task"
           /\ Key4(claude_data[j]) = Key4(claude_data[k])
           /\ claude_data[j].level # claude_data[k].level
           /\ \E i \in 1..Len(regional_results) :
                  /\ Key4(regional_results[i]) = Key4(claude_data[j])
                  /\ Len(regional_results[i].contributing_countries) = 2

\* Indexes of the usage_count records of the country facet.
UsageCountIdx(rows) ==
    {i \in 1..Len(rows) :
        /\ rows[i].facet = "country"
        /\ rows[i].variable = "usage_count"}

UsagePctIdxOf(rows) ==
    {i \in 1..Len(rows) :
        /\ rows[i].facet = "country"
        /\ rows[i].variable = "usage_pct"}

\* C21: usage_pct records are computed only after every region has been
\* aggregated.  While regions are still being processed the results hold no
\* usage_pct record; the only step that appends one is the final
\* calculate_country_facet_percentages, taken when the region loop is
\* exhausted; and once such a record exists every region with usage_count
\* rows already has its usage_count record in front of it, and the record's
\* denominator is the usage_count summed over all regions.
C21_UsagePctAfterAllRegions ==
    /\ [](pc = "aggregating" => UsagePctIdx = {})
    /\ [](UsagePctIdx # {} =>
              /\ AfterAggregation
              /\ region_queue = <<>>
              /\ \A j \in UsageIdx :
                     \E i \in UsageCountIdx(regional_results) :
                         /\ regional_results[i].region = claude_data[j].region
                         /\ \A k \in UsagePctIdx : i < k
              /\ \A k \in UsagePctIdx :
                     /\ GlobalUsage # 0
                     /\ regional_results[k].value[1] * GlobalUsage =
                            100 * RegionUsage(regional_results[k].region)
                                * regional_results[k].value[2])
    /\ [][UsagePctIdxOf(regional_results') # UsagePctIdxOf(regional_results) =>
              /\ pc = "aggregating"
              /\ region_queue = <<>>
              /\ pc' = "aggregated"]_vars

\* Both regions were aggregated, with a weighted record of the second region
\* in between, before the two usage_pct records were appended: 1 of 3 and 2
\* of 3.
C21_Witness ==
    /\ pc = "aggregated"
    /\ Cardinality(UsagePctIdx) = 2
    /\ \E i \in UsagePctIdx :
           /\ regional_results[i].region = "R1"
           /\ regional_results[i].value = Rat(100, 3)
    /\ \E w \in 1..Len(regional_results) :
           /\ regional_results[w].region = "R2"
           /\ regional_results[w].facet \in WeightedFacets
           /\ \A k \in UsagePctIdx : w < k

WeightedMethods == {"weighted_average", "weighted_sum"}

\* C22: no record is emitted for a zero-weight group.  Every record with
\* calculation_method weighted_average or weighted_sum names at least one
\* contributing country, each of them with a strictly positive weight, and
\* has regional_weight > 0; a group of the weighted facets none of whose
\* countries has a positive weight has no record at all.
C22_NoRecordForZeroWeightGroup ==
    /\ \A r \in Results :
           r.calculation_method \in WeightedMethods =>
               /\ r.facet \in WeightedFacets
               /\ Len(r.contributing_countries) >= 1
               /\ \A g \in Range(r.contributing_countries) :
                      WeightGet(country_weights, g) > 0
               /\ RLt(RInt(0), r.regional_weight)
               /\ PositiveIdx(r) # {}
    /\ \A x \in Range(claude_data) :
           (x.facet \in WeightedFacets /\ PositiveIdx(x) = {}) =>
               ~HasRecord(x, regional_results)

\* A _count group whose only country has weight 0 was skipped, while a
\* weighted_sum record of the other region was emitted.
C22_Witness ==
    /\ AfterAggregation
    /\ \E x \in Range(claude_data) :
           /\ x.facet \in WeightedFacets
           /\ EndsWithCount(x.variable)
           /\ x.geo_id \in DOMAIN country_weights
           /\ country_weights[x.geo_id] = 0
           /\ PositiveIdx(x) = {}
    /\ \E r \in Results :
           /\ r.calculation_method = "weighted_sum"
           /\ r.region = "R2"
           /\ r.regional_weight = RInt(2)

\* Loaded rows whose value entered record r: the region's usage_count rows
\* for a country record, the positive-weight rows of its group otherwise.
EnteredIdx(r) ==
    IF r.facet = "country"
    THEN {j \in UsageIdx : claude_data[j].region = r.region}
    ELSE PositiveIdx(r)

\* Sum of the weight-table entries of the countries listed in r.
ContributorsWeight(r) ==
    Sum(Map(r.contributing_countries,
            LAMBDA g : WeightGet(country_weights, g)))

\* contributing_countries names exactly the countries of the rows that
\* entered r.
ContributorsExact(r) ==
    /\ Range(r.contributing_countries) =
           {claude_data[j].geo_id : j \in EnteredIdx(r)}
    /\ Len(r.contributing_countries) = Cardinality(EnteredIdx(r))

\* C24: every aggregate record carries accurate provenance, whatever its
\* calculation_method: contributing_countries lists exactly the countries
\* whose rows entered the value, and regional_weight is the sum of those
\* countries' weights from the weight table.
C24_Original ==
    \A r \in Results :
        /\ ContributorsExact(r)
        /\ r.regional_weight = RInt(ContributorsWeight(r))

\* The step of calculate_country_facet_percentages.
PercentagesStep ==
    /\ pc = "aggregating"
    /\ region_queue = <<>>
    /\ pc' = "aggregated"

\* C29: when the usage_count summed over all regions is 0,
\* calculate_country_facet_percentages appends nothing, leaves
\* regional_results as it was and raises no error; otherwise it appends, to
\* the unchanged records, exactly one usage_pct record for each usage_count
\* record present, of the same region.
C29_ZeroTotalAppendsNothing ==
    [][PercentagesStep =>
          /\ error' = "none"
          /\ GlobalUsage = 0 => regional_results' = regional_results
          /\ GlobalUsage # 0 =>
                 LET old == Len(regional_results)
                     counts == UsageCountIdx(regional_results)
                 IN  /\ Len(regional_results') = old + Cardinality(counts)
                     /\ SubSeq(regional_results', 1, old) = regional_results
                     /\ \A k \in old + 1..Len(regional_results') :
                            /\ regional_results'[k].facet = "country"
                            /\ regional_results'[k].variable = "usage_pct"
                     /\ \A i \in counts :
                            Cardinality({k \in old + 1..Len(regional_results') :
                                regional_results'[k].region =
                                    regional_results[i].region}) = 1]_vars

\* The usage_count values of both regions are 0: each region has its
\* usage_count record, next to a weighted facet's rows that were skipped, and
\* no usage_pct record was appended.
C29_Witness ==
    /\ pc = "aggregated"
    /\ error = "none"
    /\ UsageIdx # {}
    /\ GlobalUsage = 0
    /\ UsageCountIdx(regional_results) # {}
    /\ UsagePctIdx = {}
    /\ Len(claude_data) > Cardinality(UsageIdx)

-----------------------------------------------------------------------------
(* Percentage Normalizer (normalize_regionanalysis.py).                    *)

\* Largest number of rows of regionanalysis.csv.
MaxNormRows == 3

NormRow(reg, f, l, v, c, x) ==
    [region |-> reg, facet |-> f, level |-> l, variable |-> v,
     cluster_name |-> c, value |-> RInt(x)]

NormRowSpace ==
    {NormRow("R1", "onet_task", l, "onet_task_pct", "A", x) :
        l \in {0, 1}, x \in {0, 40}}
    \cup {NormRow("R1", "onet_task", l, "onet_task_pct", "B", x) :
        l \in {0, 1}, x \in {0, 50}}
    \cup {NormRow("R1", "onet_task", l, "onet_task_pct", "none", 10) :
        l \in {0, 1}}
    \cup {NormRow("R1", "onet_task", 0, "onet_task_count", "A", 40),
          NormRow("R2", "collaboration", 0, "collaboration_pct", "B", 50),
          NormRow("R2", "collaboration", 0, "collaboration_pct", "not_classified", 10),
          NormRow("R2", "country", 0, "usage_pct", "", 50)}

sentinels == {"none", "not_classified"}

\* The (region, facet) pairs main() visits, in the order of its two loops
\* over get_normalization_targets' dict.
NormalizationTargets(df) ==
    LET regions == Dedup(Map(df, LAMBDA r : r.region))
        facets(reg) == Dedup(Map(SelectSeq(df, LAMBDA r : r.region = reg),
                                 LAMBDA r : r.facet))
        target_facets_of(reg) ==
            SelectSeq(facets(reg),
                      LAMBDA f : f \in {"onet_task", "collaboration"})
    IN  SelectSeq(Map(regions, LAMBDA reg : <<reg, target_facets_of(reg)>>),
                  LAMBDA t : t[2] # <<>>)

TargetPairs(targets) ==
    Concat(Map(targets, LAMBDA t : Map(t[2], LAMBDA f : <<t[1], f>>)))

\* mask of normalize_facet_data
FacetPctIdx(df, region, facet) ==
    {i \in 1..Len(df) :
        /\ df[i].region = region
        /\ df[i].facet = facet
        /\ EndsWithPct(df[i].variable)}

\* the index of items_to_normalize
NormalizeIdx(df, region, facet) ==
    {i \in FacetPctIdx(df, region, facet) : df[i].cluster_name \notin sentinels}

\* items_to_normalize['value'].sum()
RECURSIVE RSumIdx(_, _)
RSumIdx(df, I) ==
    IF I = {} THEN RInt(0)
    ELSE LET i == CHOOSE i \in I : \A j \in I : i <= j
         IN  RAdd(df[i].value, RSumIdx(df, I \ {i}))

\* Variant: the quotient is not scaled to a percentage.
NormalizedValue_Fraction(value, original_sum) ==
    RDiv(value, original_sum)

\* (value / original_sum) * 100
NormalizedValue(value, original_sum) ==
    RMul(RDiv(value, original_sum), RInt(100))

\* Variant: the denominator also counts the excluded rows.
normalize_facet_data_SentinelInSum(df, region, facet) ==
    LET I == NormalizeIdx(df, region, facet)
        original_sum == RSumIdx(df, FacetPctIdx(df, region, facet))
    IN  IF I = {} \/ original_sum = RInt(0) THEN df
        ELSE [i \in 1..Len(df) |->
                 IF i \in I
                 THEN [df[i] EXCEPT !.value =
                          NormalizedValue(df[i].value, original_sum)]
                 ELSE df[i]]

\* Variant: the excluded rows are rescaled together with the others.
normalize_facet_data_RescalesSentinels(df, region, facet) ==
    LET I == FacetPctIdx(df, region, facet)
        original_sum == RSumIdx(df, I)
    IN  IF I = {} \/ original_sum = RInt(0) THEN df
        ELSE [i \in 1..Len(df) |->
                 IF i \in I
                 THEN [df[i] EXCEPT !.value =
                          NormalizedValue(df[i].value, original_sum)]
                 ELSE df[i]]

\* Variant: a group summing to 0 is spread evenly instead of left alone.
normalize_facet_data_ZeroSumUniform(df, region, facet) ==
    LET I == NormalizeIdx(df, region, facet)
        original_sum == RSumIdx(df, I)
    IN  IF I = {} THEN df
        ELSE [i \in 1..Len(df) |->
                 IF i \in I
                 THEN [df[i] EXCEPT !.value =
                          IF original_sum = RInt(0)
                          THEN Rat(100, Cardinality(I))
                          ELSE NormalizedValue(df[i].value, original_sum)]
                 ELSE df[i]]

\* The dataframe normalize_facet_data returns.
normalize_facet_data(df, region, facet) ==
    LET I == NormalizeIdx(df, region, facet)
        original_sum == RSumIdx(df, I)
    IN  IF FacetPctIdx(df, region, facet) = {} THEN df
        ELSE IF I = {} THEN df
        ELSE IF original_sum = RInt(0) THEN df
        ELSE [i \in 1..Len(df) |->
                 IF i \in I
                 THEN [df[i] EXCEPT !.value =
                          NormalizedValue(df[i].value, original_sum)]
                 ELSE df[i]]

\* The validation_info normalize_facet_data returns.
ValidationInfo(df, region, facet) ==
    LET I == NormalizeIdx(df, region, facet)
        original_sum == RSumIdx(df, I)
        after == normalize_facet_data(df, region, facet)
        done == I # {} /\ original_sum # RInt(0)
    IN  [region |-> region, facet |-> facet,
         original_sum |-> IF I = {} THEN RInt(0) ELSE original_sum,
         normalized_sum |-> IF done THEN RSumIdx(after, I) ELSE RInt(0),
         records_modified |-> IF done THEN Cardinality(I) ELSE 0]

\* The normalization_applied column add_normalization_flag computes.
NormalizationFlags(df, targets) ==
    [i \in 1..Len(df) |->
        \E p \in Range(TargetPairs(targets)) :
            /\ df[i].region = p[1]
            /\ df[i].facet = p[2]
            /\ EndsWithPct(df[i].variable)
            /\ df[i].cluster_name \notin sentinels]

NoNormFile == [written |-> FALSE, rows |-> <<>>, flags |-> <<>>]

\* main() after load_data and validate_data_structure.
NormInit ==
    /\ norm_file \in UNION {[1..n -> NormRowSpace] : n \in 0..MaxNormRows}
    /\ norm_df = norm_file
    /\ norm_targets = <<>>
    /\ norm_queue = <<>>
    /\ norm_validation = <<>>
    /\ norm_flags = <<>>
    /\ norm_out = NoNormFile
    /\ npc = "loaded"

NormIdle ==
    /\ norm_file = <<>>
    /\ norm_df = <<>>
    /\ norm_targets = <<>>
    /\ norm_queue = <<>>
    /\ norm_validation = <<>>
    /\ norm_flags = <<>>
    /\ norm_out = NoNormFile
    /\ npc = "idle"

get_normalization_targets ==
    /\ npc = "loaded"
    /\ norm_targets' = NormalizationTargets(norm_df)
    /\ norm_queue' = TargetPairs(norm_targets')
    /\ npc' = "normalizing"
    /\ UNCHANGED <<norm_file, norm_df, norm_validation, norm_flags, norm_out>>
    /\ UNCHANGED notNorm

\* One iteration of main()'s loops: normalize one (region, facet).
normalize_step ==
    /\ npc = "normalizing"
    /\ norm_queue # <<>>
    /\ LET p == Head(norm_queue)
       IN  /\ norm_df' = normalize_facet_data(norm_df, p[1], p[2])
           /\ norm_validation' =
                  Append(norm_validation, ValidationInfo(norm_df, p[1], p[2]))
    /\ norm_queue' = Tail(norm_queue)
    /\ UNCHANGED <<norm_file, norm_targets, norm_flags, norm_out, npc>>
    /\ UNCHANGED notNorm

add_normalization_flag ==
    /\ npc = "normalizing"
    /\ norm_queue = <<>>
    /\ norm_flags' = NormalizationFlags(norm_df, norm_targets)
    /\ npc' = "flagged"
    /\ UNCHANGED <<norm_file, norm_df, norm_targets, norm_queue,
                   norm_validation, norm_out>>
    /\ UNCHANGED notNorm

\* df_normalized.to_csv and the validation report that end main().
save_normalized ==
    /\ npc = "flagged"
    /\ norm_out' = [written |-> TRUE, rows |-> norm_df, flags |-> norm_flags]
    /\ npc' = "done"
    /\ UNCHANGED <<norm_file, norm_df, norm_targets, norm_queue,
                   norm_validation, norm_flags>>
    /\ UNCHANGED notNorm

NormNext ==
    \/ get_normalization_targets
    \/ normalize_step
    \/ add_normalization_flag
    \/ save_normalized

-----------------------------------------------------------------------------
(* Properties of the normalizer.                                           *)

TargetFacetNames == {"onet_task", "collaboration"}

\* Non-sentinel percentage rows of a (region, facet) group.
NonSentinelPct(df, reg, f) ==
    {i \in 1..Len(df) :
        /\ df[i].region = reg /\ df[i].facet = f
        /\ df[i].variable \in {"onet_task_pct", "collaboration_pct"}
        /\ df[i].cluster_name # "none" /\ df[i].cluster_name # "not_classified"}

\* Non-sentinel percentage rows of a (region, facet, level) group.
LevelIdx(df, reg, f, l) ==
    {i \in NonSentinelPct(df, reg, f) : df[i].level = l}

NormRegions == {"R1", "R2"}

NormalizationDone == npc \in {"flagged", "done"}

\* C13: once a (region, facet) group has been normalized, applying
\* normalize_facet_data to it again changes no non-sentinel percentage
\* value (the values are equal exactly, hence within 1e-9).
C13_NormalizeTwiceIsNoOp ==
    NormalizationDone =>
        \A reg \in NormRegions, f \in TargetFacetNames :
            LET again == normalize_facet_data(norm_df, reg, f)
            IN  /\ Len(again) = Len(norm_df)
                /\ \A i \in NonSentinelPct(norm_df, reg, f) :
                       again[i].value = norm_df[i].value

\* A group of two rows whose values the first application changed.
C13_Witness ==
    /\ NormalizationDone
    /\ \E reg \in NormRegions, f \in TargetFacetNames :
           /\ Cardinality(NonSentinelPct(norm_df, reg, f)) = 2
           /\ \A i \in NonSentinelPct(norm_df, reg, f) :
                  /\ norm_df[i].value # norm_file[i].value
                  /\ norm_df[i].value # RInt(0)

IsSentinel(row) == row.cluster_name = "none" \/ row.cluster_name = "not_classified"

\* C14: a row whose cluster_name is none or not_classified keeps its value
\* throughout, and each other percentage row of a normalized group becomes
\* its old value divided by the sum of the group's non-sentinel values,
\* times 100: the sentinel values are not part of the denominator.
C14_SentinelsUntouched ==
    /\ Len(norm_df) = Len(norm_file)
    /\ \A i \in 1..Len(norm_file) : IsSentinel(norm_file[i]) => norm_df[i] = norm_file[i]
    /\ NormalizationDone =>
           \A reg \in NormRegions, f \in TargetFacetNames :
               LET I == NonSentinelPct(norm_file, reg, f)
                   S == RSumIdx(norm_file, I)
               IN  S # RInt(0) =>
                       \A i \in I :
                           norm_df[i].value =
                               RMul(RDiv(norm_file[i].value, S), RInt(100))

\* Raw A = 40, none = 10, B = 50 became A = 400/9, B = 500/9, none = 10.
C14_Witness ==
    /\ NormalizationDone
    /\ Len(norm_file) = 3
    /\ \E a, n, b \in 1..3 :
           /\ norm_file[a].cluster_name = "A" /\ norm_file[a].value = RInt(40)
           /\ norm_file[n].cluster_name = "none" /\ norm_file[n].value = RInt(10)
           /\ norm_file[b].cluster_name = "B" /\ norm_file[b].value = RInt(50)
           /\ norm_file[a].variable = "onet_task_pct"
           /\ norm_file[b].variable = "onet_task_pct"
           /\ norm_df[a].value = <<400, 9>>
           /\ norm_df[n].value = RInt(10)
           /\ norm_df[b].value = <<500, 9>>

\* The group normalize_facet_data is about to be called for has non-sentinel
\* percentage rows and they sum to 0.
ZeroSumNext ==
    /\ npc = "normalizing"
    /\ norm_queue # <<>>
    /\ NonSentinelPct(norm_df, Head(norm_queue)[1], Head(norm_queue)[2]) # {}
    /\ RSumIdx(norm_df, NonSentinelPct(norm_df, Head(norm_queue)[1],
                                       Head(norm_queue)[2])) = RInt(0)

\* C15: when the non-sentinel percentage values of the group sum to 0, the
\* call of normalize_facet_data leaves the whole table as it was and returns
\* a validation_info with original_sum 0 and records_modified 0, and the run
\* goes on with the next group.
C15_ZeroSumLeftUnchanged ==
    [][ZeroSumNext =>
          /\ norm_df' = norm_df
          /\ Len(norm_validation') = Len(norm_validation) + 1
          /\ norm_validation'[Len(norm_validation')].region = Head(norm_queue)[1]
          /\ norm_validation'[Len(norm_validation')].facet = Head(norm_queue)[2]
          /\ norm_validation'[Len(norm_validation')].original_sum = RInt(0)
          /\ norm_validation'[Len(norm_validation')].records_modified = 0
          /\ norm_queue' = Tail(norm_queue)
          /\ npc' = "normalizing"]_vars

\* A run in which one group summed to 0 and was left alone while another
\* group was normalized.
C15_Witness ==
    /\ NormalizationDone
    /\ \E k \in 1..Len(norm_validation) :
           /\ NonSentinelPct(norm_file, norm_validation[k].region,
                             norm_validation[k].facet) # {}
           /\ norm_validation[k].original_sum = RInt(0)
           /\ norm_validation[k].records_modified = 0
    /\ \E k \in 1..Len(norm_validation) :
           norm_validation[k].records_modified > 0

\* Rows the normalizer assigned a rescaled value to: the non-sentinel
\* percentage rows of a target group whose values did not sum to 0.
RescaledIdx ==
    {i \in 1..Len(norm_file) :
        \E reg \in NormRegions, f \in TargetFacetNames :
            /\ i \in NonSentinelPct(norm_file, reg, f)
            /\ RSumIdx(norm_file, NonSentinelPct(norm_file, reg, f)) # RInt(0)}

\* C23: once the flags are set, normalization_applied is true for exactly
\* the rows whose value the normalizer rescaled; no untouched row is flagged,
\* the rows of a group skipped for a zero sum included.
C23_Original ==
    NormalizationDone =>
        \A i \in 1..Len(norm_flags) : norm_flags[i] <=> i \in RescaledIdx

-----------------------------------------------------------------------------
(* Scoring Engine (analysis/ai_maturity/scoring_engine.py).                *)

\* Largest number of rows (regions) of the regional input table.
MaxScoreRegions == 3

EnumRegions == <<"North America", "Latin America", "Europe",
                 "Middle East & Africa", "APAC">>

\* (validation_pct, task_iteration_pct, learning_pct)
CollabInputs == {<<10, 0, 0>>, <<10, 10, 0>>, <<10, 10, 10>>}

\* (sw_prompt_length, sw_completion_length, sw_cost_index)
EfficiencyInputs == {<<0, 0, 0>>, <<4, 3, 3>>}

\* level0_sw_pct
ComplexityInputs == {0, 100}

\* The weights argument: None, the 0.40/0.20/0.40 of the code, the
\* 0.25/0.25/0.50 of the module docstring, or a triple with a zero weight.
WeightInputs ==
    {<<>>,
     <<[collaboration |-> Rat(2, 5), efficiency |-> Rat(1, 5),
        complexity |-> Rat(2, 5)]>>,
     <<[collaboration |-> Rat(1, 4), efficiency |-> Rat(1, 4),
        complexity |-> Rat(1, 2)]>>,
     <<[collaboration |-> Rat(1, 2), efficiency |-> Rat(0, 1),
        complexity |-> Rat(1, 2)]>>}

ScoreRow(c, e, x) ==
    [validation_pct |-> c[1], task_iteration_pct |-> c[2],
     learning_pct |-> c[3], sw_prompt_length |-> e[1],
     sw_completion_length |-> e[2], sw_cost_index |-> e[3],
     level0_sw_pct |-> x]

\* A grid of rows, and one row that lies strictly inside the grid's range
\* in all three dimensions.
ScoreRowSpace ==
    {ScoreRow(c, e, x) :
        c \in CollabInputs, e \in EfficiencyInputs, x \in ComplexityInputs}
    \cup {ScoreRow(<<10, 10, 6>>, <<1, 2, 1>>, 90)}

calculate_collaboration_score(validation_pct, task_iteration_pct, learning_pct) ==
    validation_pct + task_iteration_pct + learning_pct

calculate_efficiency_score(prompt_length, completion_length, cost_index) ==
    prompt_length + completion_length + cost_index

calculate_complexity_score(level0_sw_pct) == level0_sw_pct

\* scores.min() and scores.max() of a non-empty vector
RECURSIVE RMin(_)
RMin(s) ==
    IF Len(s) = 1 THEN s[1]
    ELSE LET m == RMin(Tail(s))
         IN  IF RLe(Head(s), m) THEN Head(s) ELSE m

RECURSIVE RMax(_)
RMax(s) ==
    IF Len(s) = 1 THEN s[1]
    ELSE LET m == RMax(Tail(s))
         IN  IF RLe(m, Head(s)) THEN Head(s) ELSE m

\* Variant: a flat vector is scored 0 instead of 50.
MinMaxScale_FlatIsZero(scores, min_score, max_score, invert) ==
    [i \in 1..Len(scores) |->
        IF max_score = min_score THEN RInt(0)
        ELSE LET normalized == RMul(RDiv(RSub(scores[i], min_score),
                                         RSub(max_score, min_score)),
                                    RInt(100))
             IN  IF invert THEN RSub(RInt(100), normalized) ELSE normalized]

\* Lines 88-97 of normalize_scores, given the minimum and the maximum.
MinMaxScale(scores, min_score, max_score, invert) ==
    IF max_score = min_score
    THEN [i \in 1..Len(scores) |-> RInt(50)]
    ELSE [i \in 1..Len(scores) |->
             LET normalized == RMul(RDiv(RSub(scores[i], min_score),
                                         RSub(max_score, min_score)),
                                    RInt(100))
             IN  IF invert THEN RSub(RInt(100), normalized) ELSE normalized]

normalize_scores(scores, invert) ==
    TheOne({MinMaxScale(scores, m[1], m[2], invert) :
               m \in {<<RMin(scores), RMax(scores)>>}})

\* Series.rank(ascending=False, method='min'): the values are ordered from
\* the largest down and each gets the first position its value occupies.
RECURSIVE SortDescending(_)
SortDescending(s) ==
    IF s = <<>> THEN <<>>
    ELSE LET m == RMax(s)
             k == CHOOSE k \in 1..Len(s) : s[k] = m
         IN  <<m>> \o SortDescending([i \in 1..(Len(s) - 1) |->
                                         IF i < k THEN s[i] ELSE s[i + 1]])

FirstPositions(s, sorted) ==
    [i \in 1..Len(s) |->
        CHOOSE p \in 1..Len(s) :
            /\ sorted[p] = s[i]
            /\ \A q \in 1..(p - 1) : sorted[q] # s[i]]

\* Variant: dense ranking, ties do not consume positions.
RankMinDescending_Dense(s) ==
    [i \in 1..Len(s) |->
        1 + Cardinality({s[j] : j \in {j \in 1..Len(s) : RLt(s[i], s[j])}})]

RankMinDescending(s) ==
    TheOne({FirstPositions(s, sorted) : sorted \in {SortDescending(s)}})

DefaultWeights ==
    [collaboration |-> Rat(40, 100), efficiency |-> Rat(20, 100),
     complexity |-> Rat(40, 100)]

\* Variant: the efficiency term is weighted with the complexity weight.
Composite_WrongWeight(weights, c, e, x) ==
    RAdd(RAdd(RMul(weights.collaboration, c), RMul(weights.complexity, e)),
         RMul(weights.complexity, x))

\* Variant: the complexity term enters the composite unweighted.
Composite_UnweightedComplexity(weights, c, e, x) ==
    RAdd(RAdd(RMul(weights.collaboration, c), RMul(weights.efficiency, e)), x)

\* weights['collaboration'] * collaboration_normalized + ... for one region
Composite(weights, c, e, x) ==
    RAdd(RAdd(RMul(weights.collaboration, c), RMul(weights.efficiency, e)),
         RMul(weights.complexity, x))

\* Lines 114-138: the three raw columns.
RawColumns(data_df) ==
    [collaboration |-> Map(data_df, LAMBDA row :
         RInt(calculate_collaboration_score(row.validation_pct,
                  row.task_iteration_pct, row.learning_pct))),
     efficiency |-> Map(data_df, LAMBDA row :
         RInt(calculate_efficiency_score(row.sw_prompt_length,
                  row.sw_completion_length, row.sw_cost_index))),
     complexity |-> Map(data_df, LAMBDA row :
         RInt(calculate_complexity_score(row.level0_sw_pct)))]

\* Variant: efficiency is normalized without invert=True.
NormalizedColumns_NoInvert(raw) ==
    [collaboration |-> normalize_scores(raw.collaboration, FALSE),
     efficiency |-> normalize_scores(raw.efficiency, FALSE),
     complexity |-> normalize_scores(raw.complexity, FALSE)]

\* Lines 140-143: the three normalized columns; only efficiency is inverted.
NormalizedColumns(raw) ==
    [collaboration |-> normalize_scores(raw.collaboration, FALSE),
     efficiency |-> normalize_scores(raw.efficiency, TRUE),
     complexity |-> normalize_scores(raw.complexity, FALSE)]

\* Lines 146-150: the composite column.
CompositeColumn(weights, norm) ==
    [i \in 1..Len(norm.collaboration) |->
        Composite(weights, norm.collaboration[i], norm.efficiency[i],
                  norm.complexity[i])]

\* Variant: the rows come back in reverse order.
ResultsFrame_Reversed(data_df, raw, norm, maturity_scores, maturity_rank) ==
    [i \in 1..Len(data_df) |->
        LET k == Len(data_df) + 1 - i
        IN  [input |-> data_df[k],
             collaboration_score |-> norm.collaboration[k],
             efficiency_score |-> norm.efficiency[k],
             complexity_score |-> norm.complexity[k],
             maturity_score |-> maturity_scores[k],
             maturity_rank |-> maturity_rank[k],
             collaboration_raw |-> raw.collaboration[k],
             efficiency_raw |-> raw.efficiency[k],
             complexity_raw |-> raw.complexity[k]]]

\* Lines 152-163: the results DataFrame, from its columns.
ResultsFrame(data_df, raw, norm, maturity_scores, maturity_rank) ==
    [i \in 1..Len(data_df) |->
        [input |-> data_df[i],
         collaboration_score |-> norm.collaboration[i],
         efficiency_score |-> norm.efficiency[i],
         complexity_score |-> norm.complexity[i],
         maturity_score |-> maturity_scores[i],
         maturity_rank |-> maturity_rank[i],
         collaboration_raw |-> raw.collaboration[i],
         efficiency_raw |-> raw.efficiency[i],
         complexity_raw |-> raw.complexity[i]]]

\* weights = the argument, or the default of line 112 when it is None.
WeightsOrDefault(weights_arg) ==
    IF weights_arg = <<>> THEN DefaultWeights ELSE weights_arg[1]

calculate_maturity_scores(data_df, weights_arg) ==
    TheOne({TheOne({TheOne({
        ResultsFrame(data_df, raw, norm, mat, RankMinDescending(mat)) :
            mat \in {CompositeColumn(WeightsOrDefault(weights_arg), norm)}}) :
            norm \in {NormalizedColumns(raw)}}) :
            raw \in {RawColumns(data_df)}})

\* regional_inputs.csv as read by the script: one row per region.
ScoreInit ==
    /\ \E n \in 1..MaxScoreRegions :
           \E rows \in [1..n -> ScoreRowSpace] :
               score_input = [i \in 1..n |->
                   [region |-> EnumRegions[i]] @@ rows[i]]
    /\ score_weights \in WeightInputs
    /\ score_results = <<>>
    /\ spc = "loaded"

ScoreIdle ==
    /\ score_input = <<>>
    /\ score_weights = <<>>
    /\ score_results = <<>>
    /\ spc = "idle"

score_regions ==
    /\ spc = "loaded"
    /\ score_results' = calculate_maturity_scores(score_input, score_weights)
    /\ spc' = "scored"
    /\ UNCHANGED <<score_input, score_weights>>
    /\ UNCHANGED notScore

ScoreNext ==
    \/ score_regions

-----------------------------------------------------------------------------
(* Properties of the scoring engine.                                       *)

Scored == 1..Len(score_results)

\* The three (raw, normalized, inverted?) columns of the result.
ScoreColumns ==
    {[raw |-> [i \in Scored |-> score_results[i].collaboration_raw],
      score |-> [i \in Scored |-> score_results[i].collaboration_score],
      invert |-> FALSE],
     [raw |-> [i \in Scored |-> score_results[i].efficiency_raw],
      score |-> [i \in Scored |-> score_results[i].efficiency_score],
      invert |-> TRUE],
     [raw |-> [i \in Scored |-> score_results[i].complexity_raw],
      score |-> [i \in Scored |-> score_results[i].complexity_score],
      invert |-> FALSE]}

IsMinOf(raw, i) == \A j \in DOMAIN raw : RLe(raw[i], raw[j])
IsMaxOf(raw, i) == \A j \in DOMAIN raw : RLe(raw[j], raw[i])
Flat(raw) == \A i, j \in DOMAIN raw : raw[i] = raw[j]

\* x = (r - lo) / (hi - lo) * 100 for rationals x, r, lo, hi with lo < hi
IsScaled(x, r, lo, hi) ==
    x[1] * (hi[1] * lo[2] - lo[1] * hi[2]) * r[2]
        = 100 * (r[1] * lo[2] - lo[1] * r[2]) * hi[2] * x[2]

\* C5: normalize_scores maps every raw vector into [0,100] by
\* (raw - min) / (max - min) * 100; the minimum gets exactly 0 and the
\* maximum exactly 100, swapped under invert; a flat vector (N = 1 included)
\* gets 50 everywhere, inverted or not.
C5_MinMaxNormalization ==
    \A col \in ScoreColumns : \A i \in Scored :
        /\ RLe(RInt(0), col.score[i]) /\ RLe(col.score[i], RInt(100))
        /\ Flat(col.raw) => col.score[i] = RInt(50)
        /\ ~Flat(col.raw) =>
               \E lo, hi \in DOMAIN col.raw :
                   /\ IsMinOf(col.raw, lo) /\ IsMaxOf(col.raw, hi)
                   /\ IsScaled(IF col.invert
                               THEN <<100 * col.score[i][2] - col.score[i][1],
                                      col.score[i][2]>>
                               ELSE col.score[i],
                               col.raw[i], col.raw[lo], col.raw[hi])
                   /\ IsMinOf(col.raw, i) =>
                          col.score[i] = RInt(IF col.invert THEN 100 ELSE 0)
                   /\ IsMaxOf(col.raw, i) =>
                          col.score[i] = RInt(IF col.invert THEN 0 ELSE 100)

\* [10,20,30] was normalized to [0,50,100] while a flat efficiency column
\* was scored 50 under invert.
C5_Witness ==
    /\ spc = "scored"
    /\ Len(score_results) = 3
    /\ [i \in Scored |-> score_results[i].collaboration_raw]
           = <<RInt(10), RInt(20), RInt(30)>>
    /\ [i \in Scored |-> score_results[i].collaboration_score]
           = <<RInt(0), RInt(50), RInt(100)>>
    /\ \A i \in Scored : score_results[i].efficiency_score = RInt(50)

StrictlyGreater(i) ==
    {j \in Scored :
        RLt(score_results[i].maturity_score, score_results[j].maturity_score)}

\* C6: maturity_rank is the descending min-rank: in 1..N, 1 plus the number
\* of regions with a strictly greater maturity_score, hence equal for equal
\* scores and strictly smaller for a strictly greater score.
C6_MinRank ==
    \A i \in Scored :
        /\ score_results[i].maturity_rank \in 1..Len(score_results)
        /\ score_results[i].maturity_rank = 1 + Cardinality(StrictlyGreater(i))
        /\ \A j \in Scored :
               /\ score_results[i].maturity_score = score_results[j].maturity_score
                      => score_results[i].maturity_rank = score_results[j].maturity_rank
               /\ j \in StrictlyGreater(i)
                      => score_results[j].maturity_rank < score_results[i].maturity_rank

\* Two regions tied for best have rank 1 and the third has rank 3.
C6_Witness ==
    /\ spc = "scored"
    /\ Len(score_results) = 3
    /\ \E i, j, k \in Scored :
           /\ i # j
           /\ score_results[i].maturity_score = score_results[j].maturity_score
           /\ score_results[i].maturity_rank = 1
           /\ score_results[j].maturity_rank = 1
           /\ score_results[k].maturity_rank = 3

\* The weight triple in force: the one supplied, or 0.4/0.2/0.4 without one.
WeightsInForce ==
    IF score_weights = <<>>
    THEN [collaboration |-> <<2, 5>>, efficiency |-> <<1, 5>>,
          complexity |-> <<2, 5>>]
    ELSE score_weights[1]

\* m = w1*c + w2*e + w3*x over the rationals
IsWeightedSum(m, w1, c, w2, e, w3, x) ==
    LET D == w1[2] * c[2] * w2[2] * e[2] * w3[2] * x[2]
    IN  m[1] * D =
            m[2] * (w1[1] * c[1] * (w2[2] * e[2] * w3[2] * x[2])
                    + w2[1] * e[1] * (w1[2] * c[2] * w3[2] * x[2])
                    + w3[1] * x[1] * (w1[2] * c[2] * w2[2] * e[2]))

\* C7: every region's maturity_score is w1*collaboration_score +
\* w2*efficiency_score + w3*complexity_score of its own three component
\* scores under the weight triple in force.
C7_CompositeScore ==
    \A i \in Scored :
        IsWeightedSum(score_results[i].maturity_score,
                      WeightsInForce.collaboration,
                      score_results[i].collaboration_score,
                      WeightsInForce.efficiency,
                      score_results[i].efficiency_score,
                      WeightsInForce.complexity,
                      score_results[i].complexity_score)

\* Weights 0.4/0.2/0.4 with component scores 80/60/90 gave 80.
C7_Witness ==
    /\ spc = "scored"
    /\ score_weights # <<>>
    /\ score_weights[1].collaboration = <<2, 5>>
    /\ \E i \in Scored :
           /\ score_results[i].collaboration_score = RInt(80)
           /\ score_results[i].efficiency_score = RInt(60)
           /\ score_results[i].complexity_score = RInt(90)
           /\ score_results[i].maturity_score = RInt(80)

ColumnOf(raw_name) ==
    CHOOSE col \in ScoreColumns :
        col.raw = [i \in Scored |->
            CASE raw_name = "collaboration" -> score_results[i].collaboration_raw
              [] raw_name = "efficiency" -> score_results[i].efficiency_raw
              [] OTHER -> score_results[i].complexity_raw]
        /\ col.invert = (raw_name = "efficiency")

\* C8 as stated: the region with the smallest efficiency sum gets 100 and the
\* largest 0; for collaboration and complexity the largest raw value gets 100
\* and the smallest 0.
C8_Original ==
    spc = "scored" =>
        \A i \in Scored :
            /\ IsMinOf(ColumnOf("efficiency").raw, i)
                   => score_results[i].efficiency_score = RInt(100)
            /\ IsMaxOf(ColumnOf("efficiency").raw, i)
                   => score_results[i].efficiency_score = RInt(0)
            /\ IsMaxOf(ColumnOf("collaboration").raw, i)
                   => score_results[i].collaboration_score = RInt(100)
            /\ IsMinOf(ColumnOf("collaboration").raw, i)
                   => score_results[i].collaboration_score = RInt(0)
            /\ IsMaxOf(ColumnOf("complexity").raw, i)
                   => score_results[i].complexity_score = RInt(100)
            /\ IsMinOf(ColumnOf("complexity").raw, i)
                   => score_results[i].complexity_score = RInt(0)

\* C8 amended: the same, for each component whose raw values are not all
\* equal; a component whose raw values are all equal (a single region
\* included) scores 50 for every region, inverted or not.
C8_OnlyEfficiencyInverted ==
    spc = "scored" =>
        \A name \in {"collaboration", "efficiency", "complexity"} :
            LET col == ColumnOf(name)
                top == IF name = "efficiency" THEN 0 ELSE 100
            IN  \A i \in Scored :
                    IF Flat(col.raw) THEN col.score[i] = RInt(50)
                    ELSE /\ IsMaxOf(col.raw, i) => col.score[i] = RInt(top)
                         /\ IsMinOf(col.raw, i) => col.score[i] = RInt(100 - top)

\* One region has the smallest raw value of all three components: it scores
\* 100 for efficiency and 0 for the other two.
C8_Witness ==
    /\ spc = "scored"
    /\ \E i \in Scored :
           /\ \A name \in {"collaboration", "efficiency", "complexity"} :
                  /\ ~Flat(ColumnOf(name).raw)
                  /\ IsMinOf(ColumnOf(name).raw, i)
           /\ score_results[i].efficiency_score = RInt(100)
           /\ score_results[i].collaboration_score = RInt(0)
           /\ score_results[i].complexity_score = RInt(0)

\* The input columns of a row other than its region.
Measures(row) ==
    <<row.validation_pct, row.task_iteration_pct, row.learning_pct,
      row.sw_prompt_length, row.sw_completion_length, row.sw_cost_index,
      row.level0_sw_pct>>

\* The columns calculate_maturity_scores adds to a row.
Derived(res) ==
    <<res.collaboration_raw, res.efficiency_raw, res.complexity_raw,
      res.collaboration_score, res.efficiency_score, res.complexity_score,
      res.maturity_score, res.maturity_rank>>

\* C19: calculate_maturity_scores returns as many rows as it was given, row
\* i carrying the region and input columns of input row i unchanged; the
\* raw values of a row are sums of that row's own input columns, two rows
\* with equal input columns get equal scores and ranks, every rank lies in
\* 1..N, and the call leaves the input table as it was.
C19_OneScoreRowPerInputRow ==
    /\ [](spc = "scored" =>
              /\ Len(score_results) = Len(score_input)
              /\ \A i \in 1..Len(score_input) :
                     LET row == score_input[i]
                         res == score_results[i]
                     IN  /\ res.input = row
                         /\ res.collaboration_raw =
                                RInt(row.validation_pct + row.task_iteration_pct
                                         + row.learning_pct)
                         /\ res.efficiency_raw =
                                RInt(row.sw_prompt_length + row.sw_completion_length
                                         + row.sw_cost_index)
                         /\ res.complexity_raw = RInt(row.level0_sw_pct)
                         /\ res.maturity_rank \in 1..Len(score_input)
              /\ \A i, j \in 1..Len(score_input) :
                     Measures(score_input[i]) = Measures(score_input[j]) =>
                         Derived(score_results[i]) = Derived(score_results[j]))
    /\ [][score_input' = score_input /\ score_weights' = score_weights]_vars

\* Three regions with three different input rows were scored, the first of
\* them not ranked first.
C19_Witness ==
    /\ spc = "scored"
    /\ Len(score_results) = 3
    /\ \A i, j \in 1..3 :
           Measures(score_input[i]) = Measures(score_input[j]) => i = j
    /\ score_results[1].maturity_rank = 3
    /\ score_results[3].maturity_rank = 1

\* The default weights of the module docstring and of the docstring of
\* calculate_maturity_scores.
DocumentedDefaultWeights ==
    [collaboration |-> <<1, 4>>, efficiency |-> <<1, 4>>,
     complexity |-> <<1, 2>>]

\* C25: when calculate_maturity_scores is called without a weights argument,
\* every maturity_score is 0.25 * collaboration_score + 0.25 *
\* efficiency_score + 0.50 * complexity_score.
C25_Original ==
    (spc = "scored" /\ score_weights = <<>>) =>
        \A i \in Scored :
            IsWeightedSum(score_results[i].maturity_score,
                          DocumentedDefaultWeights.collaboration,
                          score_results[i].collaboration_score,
                          DocumentedDefaultWeights.efficiency,
                          score_results[i].efficiency_score,
                          DocumentedDefaultWeights.complexity,
                          score_results[i].complexity_score)

\* The three weights in force are non-negative and sum to 1.
WeightsConvex ==
    /\ \A w \in {WeightsInForce.collaboration, WeightsInForce.efficiency,
                 WeightsInForce.complexity} : RLe(RInt(0), w)
    /\ RAdd(RAdd(WeightsInForce.collaboration, WeightsInForce.efficiency),
            WeightsInForce.complexity) = RInt(1)

\* Region i has the largest collaboration and complexity raw values and the
\* smallest efficiency raw value.
BestInAll(i) ==
    /\ IsMaxOf(ColumnOf("collaboration").raw, i)
    /\ IsMaxOf(ColumnOf("complexity").raw, i)
    /\ IsMinOf(ColumnOf("efficiency").raw, i)

\* The component score of a region that is best in the component: 100, or
\* the 50 every region gets when the raw values are all equal.
TopScore(name) == IF Flat(ColumnOf(name).raw) THEN RInt(50) ELSE RInt(100)

\* C30 as stated: with non-negative weights that sum to 1 every
\* maturity_score lies in [0, 100], and a region that is best in all three
\* components scores exactly 100 and has rank 1.
C30_Original ==
    (spc = "scored" /\ WeightsConvex) =>
        \A i \in Scored :
            /\ RLe(RInt(0), score_results[i].maturity_score)
            /\ RLe(score_results[i].maturity_score, RInt(100))
            /\ BestInAll(i) =>
                   /\ score_results[i].maturity_score = RInt(100)
                   /\ score_results[i].maturity_rank = 1

\* C30 amended: with non-negative weights that sum to 1 every
\* maturity_score lies in [0, 100]; a region that is best in all three
\* components has rank 1 and a maturity_score no other region exceeds, which
\* is the weighted sum of 100 for each component whose raw values differ and
\* of 50 for each component whose raw values are all equal, hence exactly
\* 100 when no component with a positive weight is flat.
C30_BestRegionRanksFirst ==
    (spc = "scored" /\ WeightsConvex) =>
        \A i \in Scored :
            /\ RLe(RInt(0), score_results[i].maturity_score)
            /\ RLe(score_results[i].maturity_score, RInt(100))
            /\ BestInAll(i) =>
                   /\ score_results[i].maturity_rank = 1
                   /\ \A j \in Scored :
                          RLe(score_results[j].maturity_score,
                              score_results[i].maturity_score)
                   /\ IsWeightedSum(score_results[i].maturity_score,
                          WeightsInForce.collaboration, TopScore("collaboration"),
                          WeightsInForce.efficiency, TopScore("efficiency"),
                          WeightsInForce.complexity, TopScore("complexity"))
                   /\ (\A name \in {"collaboration", "efficiency", "complexity"} :
                           ~Flat(ColumnOf(name).raw)
                           \/ WeightsInForce[name] = RInt(0))
                          => score_results[i].maturity_score = RInt(100)

\* Under the weights 1/2, 0, 1/2 one region is best in all three components
\* and scores 100 with rank 1 although the efficiency values are all equal,
\* while another region scores strictly between 0 and 100.
C30_Witness ==
    /\ spc = "scored"
    /\ WeightsConvex
    /\ WeightsInForce.efficiency = RInt(0)
    /\ Flat(ColumnOf("efficiency").raw)
    /\ \E i, j \in Scored :
           /\ BestInAll(i)
           /\ score_results[i].maturity_score = RInt(100)
           /\ score_results[i].maturity_rank = 1
           /\ RLt(RInt(0), score_results[j].maturity_score)
           /\ RLt(score_results[j].maturity_score, RInt(100))

-----------------------------------------------------------------------------
(* Regional Input Builder (AI Software Maturity Score/                     *)
(* extract_regional_inputs.py).                                            *)

\* Largest number of (region, category) cells or regions left out of the
\* three source files taken together.
MaxMissing == 2

RegionSet == Range(EnumRegions)

RegionIdx(r) == CHOOSE i \in 1..Len(EnumRegions) : EnumRegions[i] = r

augmentation_patterns == <<"validation", "task iteration", "learning">>

efficiency_metric_vars ==
    <<"prompt_tokens_complexity_volume", "completion_tokens_complexity_volume",
      "cost_complexity_volume">>

\* What may be left out of the source files: a category of a region in the
\* collaboration file, or all rows of a region in one of the other two.
MissingItems ==
    {<<"collaboration", r, c>> : r \in RegionSet, c \in Range(augmentation_patterns)}
    \cup {<<"length", r, "">> : r \in RegionSet}
    \cup {<<"requests", r, "">> : r \in RegionSet}

MissingChoices == {H \in SUBSET MissingItems : Cardinality(H) <= MaxMissing}

\* regional_collaboration_analysis.csv without the cells of H.
CollabFile(H) ==
    Concat(Map(EnumRegions, LAMBDA r :
        <<[region |-> r, variable |-> "collaboration_count",
           cluster_name |-> "validation", value |-> 900 + RegionIdx(r)],
          [region |-> r, variable |-> "collaboration_pct",
           cluster_name |-> "directive", value |-> 40 - RegionIdx(r)]>>
        \o Concat(Map(augmentation_patterns, LAMBDA c :
               IF <<"collaboration", r, c>> \in H THEN <<>>
               ELSE <<[region |-> r, variable |-> "collaboration_pct",
                       cluster_name |-> c,
                       value |-> CASE c = "validation" -> 20 + RegionIdx(r)
                                   [] c = "task iteration" -> 30 - RegionIdx(r)
                                   [] OTHER -> 10]>>))))

\* onetregionalraw_with_complexity.csv without the regions of H; with
\* zero_baseline the last region's onet_task_count rows are 0.
LengthFile(H, zero_baseline) ==
    Concat(Map(EnumRegions, LAMBDA r :
        IF <<"length", r, "">> \in H THEN <<>>
        ELSE LET base == IF zero_baseline /\ RegionIdx(r) = Len(EnumRegions)
                         THEN 0 ELSE 1
                 row(d, v, x) == [region |-> r, domain |-> d, variable |-> v,
                                  value |-> x]
             IN  <<row("Software_Development", "onet_task_count", base),
                   row("Software_Development", "onet_task_count", 2 * base),
                   row("Management", "onet_task_count", 7),
                   row("Software_Development",
                       "prompt_tokens_complexity_volume", 2 * RegionIdx(r)),
                   row("Software_Development",
                       "completion_tokens_complexity_volume", 5),
                   row("Management",
                       "completion_tokens_complexity_volume", 11),
                   row("Software_Development", "cost_complexity_volume",
                       RegionIdx(r))>>))

\* softwareregionalrequests_with_sdlc.csv without the regions of H; with
\* with_pct it also holds request_pct rows.
RequestsFile(H, with_pct) ==
    Concat(Map(EnumRegions, LAMBDA r :
        IF <<"requests", r, "">> \in H THEN <<>>
        ELSE LET row(l, v, x) == [region |-> r, level |-> l, variable |-> v,
                                  value |-> x]
             IN  <<row(0, "request_count", RegionIdx(r)),
                   row(1, "request_count", 3),
                   row(2, "request_count", 2)>>
                 \o (IF with_pct
                     THEN <<row(0, "request_pct", 25), row(1, "request_pct", 75)>>
                     ELSE <<>>)))

\* d[k] = v
DictSet(d, k, v) == (k :> v) @@ d

\* The loop of extract_collaboration_metrics over the regions `todo`:
\* .iloc[0] of an empty selection raises IndexError and the results are lost.
RECURSIVE CollabLoop(_, _, _)
CollabLoop(collab_pct, todo, results) ==
    IF todo = <<>> THEN [ok |-> TRUE, results |-> results]
    ELSE LET region == Head(todo)
             region_data == SelectSeq(collab_pct, LAMBDA r : r.region = region)
             sel(c) == SelectSeq(region_data, LAMBDA r : r.cluster_name = c)
         IN  IF \E c \in Range(augmentation_patterns) : sel(c) = <<>>
             THEN [ok |-> FALSE, results |-> EmptyDict]
             ELSE CollabLoop(collab_pct, Tail(todo),
                      DictSet(results, region,
                          [validation_pct |-> sel("validation")[1].value,
                           task_iteration_pct |-> sel("task iteration")[1].value,
                           learning_pct |-> sel("learning")[1].value]))

\* Variant: a category without a row counts as 0 instead of raising.
ExtractCollaboration_DefaultZero(df_collab) ==
    LET collab_pct == SelectSeq(df_collab,
                          LAMBDA r : r.variable = "collaboration_pct")
        first(region, c) ==
            LET sel == SelectSeq(collab_pct, LAMBDA r :
                           r.region = region /\ r.cluster_name = c)
            IN  IF sel = <<>> THEN 0 ELSE sel[1].value
    IN  [ok |-> TRUE,
         results |-> [r \in RegionSet |->
                         [validation_pct |-> first(r, "validation"),
                          task_iteration_pct |-> first(r, "task iteration"),
                          learning_pct |-> first(r, "learning")]]]

ExtractCollaboration(df_collab) ==
    CollabLoop(SelectSeq(df_collab, LAMBDA r : r.variable = "collaboration_pct"),
               EnumRegions, EmptyDict)

\* efficiency_total / original_total if original_total > 0 else 0
EfficiencyIndex(efficiency_total, original_total) ==
    IF original_total > 0 THEN Rat(efficiency_total, original_total)
    ELSE RInt(0)

\* One region's efficiency_indices.
RegionEfficiency(sw_data, region) ==
    LET region_data == SelectSeq(sw_data, LAMBDA r : r.region = region)
        total(v) == Sum(Map(SelectSeq(region_data, LAMBDA r : r.variable = v),
                            LAMBDA r : r.value))
        original_total == total("onet_task_count")
    IN  [sw_prompt_length |->
             EfficiencyIndex(total(efficiency_metric_vars[1]), original_total),
         sw_completion_length |->
             EfficiencyIndex(total(efficiency_metric_vars[2]), original_total),
         sw_cost_index |->
             EfficiencyIndex(total(efficiency_metric_vars[3]), original_total)]

\* Variant: the rows of every domain are used.
ExtractEfficiency_AllDomains(df_length) ==
    [r \in RegionSet |-> RegionEfficiency(df_length, r)]

ExtractEfficiency(df_length) ==
    LET sw_data == SelectSeq(df_length,
                       LAMBDA r : r.domain = "Software_Development")
    IN  [r \in RegionSet |-> RegionEfficiency(sw_data, r)]

\* One region's complexity record.
RegionComplexity(df_requests, region) ==
    LET region_data == SelectSeq(df_requests, LAMBDA r : r.region = region)
        total_requests == Sum(Map(region_data, LAMBDA r : r.value))
        level0_requests ==
            Sum(Map(SelectSeq(region_data, LAMBDA r : r.level = 0),
                    LAMBDA r : r.value))
    IN  [level0_sw_pct |->
             IF total_requests > 0
             THEN RMul(Rat(level0_requests, total_requests), RInt(100))
             ELSE RInt(0),
         total_sw_requests |-> total_requests,
         level0_sw_requests |-> level0_requests]

ExtractComplexity(df_requests) ==
    [r \in RegionSet |-> RegionComplexity(df_requests, r)]

\* Variant: regions without requests are left out of the table.
Database_OnlyCovered(collab, efficiency, complexity) ==
    Map(SelectSeq(EnumRegions,
                  LAMBDA region : complexity[region].total_sw_requests > 0),
        LAMBDA region :
        [region |-> region,
         validation_pct |-> collab[region].validation_pct,
         task_iteration_pct |-> collab[region].task_iteration_pct,
         learning_pct |-> collab[region].learning_pct,
         sw_prompt_length |-> efficiency[region].sw_prompt_length,
         sw_completion_length |-> efficiency[region].sw_completion_length,
         sw_cost_index |-> efficiency[region].sw_cost_index,
         level0_sw_pct |-> complexity[region].level0_sw_pct,
         total_sw_requests |-> complexity[region].total_sw_requests,
         level0_sw_requests |-> complexity[region].level0_sw_requests])

\* The table of create_regional_database: one row per region of the list.
Database(collab, efficiency, complexity) ==
    Map(EnumRegions, LAMBDA region :
        [region |-> region,
         validation_pct |-> collab[region].validation_pct,
         task_iteration_pct |-> collab[region].task_iteration_pct,
         learning_pct |-> collab[region].learning_pct,
         sw_prompt_length |-> efficiency[region].sw_prompt_length,
         sw_completion_length |-> efficiency[region].sw_completion_length,
         sw_cost_index |-> efficiency[region].sw_cost_index,
         level0_sw_pct |-> complexity[region].level0_sw_pct,
         total_sw_requests |-> complexity[region].total_sw_requests,
         level0_sw_requests |-> complexity[region].level0_sw_requests])

NoInputsFile == [written |-> FALSE, rows |-> <<>>]

BuildInit ==
    /\ \E H \in MissingChoices, zero_baseline \in BOOLEAN, with_pct \in BOOLEAN :
           /\ collab_csv = CollabFile(H)
           /\ length_csv = LengthFile(H, zero_baseline)
           /\ requests_csv = RequestsFile(H, with_pct)
    /\ collab_metrics = EmptyDict
    /\ efficiency_metrics = EmptyDict
    /\ complexity_metrics = EmptyDict
    /\ inputs_file = NoInputsFile
    /\ berror = "none"
    /\ bpc = "new"

BuildIdle ==
    /\ collab_csv = <<>>
    /\ length_csv = <<>>
    /\ requests_csv = <<>>
    /\ collab_metrics = EmptyDict
    /\ efficiency_metrics = EmptyDict
    /\ complexity_metrics = EmptyDict
    /\ inputs_file = NoInputsFile
    /\ berror = "none"
    /\ bpc = "idle"

extract_collaboration_metrics ==
    /\ bpc = "new"
    /\ LET got == ExtractCollaboration(collab_csv)
       IN  IF got.ok
           THEN /\ collab_metrics' = got.results
                /\ bpc' = "collaboration"
                /\ berror' = berror
           ELSE /\ collab_metrics' = collab_metrics
                /\ bpc' = "failed"
                /\ berror' = "IndexError"
    /\ UNCHANGED <<collab_csv, length_csv, requests_csv, efficiency_metrics,
                   complexity_metrics, inputs_file>>
    /\ UNCHANGED notBuild

extract_efficiency_metrics ==
    /\ bpc = "collaboration"
    /\ efficiency_metrics' = ExtractEfficiency(length_csv)
    /\ bpc' = "efficiency"
    /\ UNCHANGED <<collab_csv, length_csv, requests_csv, collab_metrics,
                   complexity_metrics, inputs_file, berror>>
    /\ UNCHANGED notBuild

extract_complexity_metrics ==
    /\ bpc = "efficiency"
    /\ complexity_metrics' = ExtractComplexity(requests_csv)
    /\ bpc' = "complexity"
    /\ UNCHANGED <<collab_csv, length_csv, requests_csv, collab_metrics,
                   efficiency_metrics, inputs_file, berror>>
    /\ UNCHANGED notBuild

\* The rest of create_regional_database: combine and write the file.
write_regional_database ==
    /\ bpc = "complexity"
    /\ inputs_file' = [written |-> TRUE,
                       rows |-> Database(collab_metrics, efficiency_metrics,
                                         complexity_metrics)]
    /\ bpc' = "done"
    /\ UNCHANGED <<collab_csv, length_csv, requests_csv, collab_metrics,
                   efficiency_metrics, complexity_metrics, berror>>
    /\ UNCHANGED notBuild

BuildNext ==
    \/ extract_collaboration_metrics
    \/ extract_efficiency_metrics
    \/ extract_complexity_metrics
    \/ write_regional_database

-----------------------------------------------------------------------------
(* Properties of the Regional Input Builder.                               *)

HasCollab(r, c) ==
    \E i \in 1..Len(collab_csv) :
        /\ collab_csv[i].region = r
        /\ collab_csv[i].variable = "collaboration_pct"
        /\ collab_csv[i].cluster_name = c

CollabComplete ==
    \A r \in Range(EnumRegions) :
        \A c \in {"validation", "task iteration", "learning"} : HasCollab(r, c)

HasLengthRows(r) == \E i \in 1..Len(length_csv) : length_csv[i].region = r

HasRequestRows(r) == \E i \in 1..Len(requests_csv) : requests_csv[i].region = r

Zero == <<0, 1>>

\* C9 as stated: a file is only written when every enumerated region has
\* rows in each of the three datasets; otherwise the run raises and no
\* record with a defaulted 0 is emitted.
C9_Original ==
    inputs_file.written =>
        /\ CollabComplete
        /\ \A r \in Range(EnumRegions) : HasLengthRows(r) /\ HasRequestRows(r)

\* C9: the builder either writes exactly one record for each of the five
\* enumerated regions, in the order of the list, or fails with IndexError
\* and writes nothing; it fails only when the collaboration dataset lacks a
\* category row for a region.  A region with no rows in the efficiency
\* dataset still gets its record, with the three efficiency indices 0, and
\* a region with no rows in the requests dataset gets level0_sw_pct 0 and
\* both request counts 0.
C9_RecordPerRegionOrCollabFailure ==
    /\ bpc = "done" =>
           /\ inputs_file.written
           /\ CollabComplete
    /\ bpc = "failed" =>
           /\ ~CollabComplete
           /\ berror = "IndexError"
           /\ ~inputs_file.written
    /\ inputs_file.written =>
           /\ Len(inputs_file.rows) = 5
           /\ \A i \in 1..Len(inputs_file.rows) :
                  LET row == inputs_file.rows[i]
                  IN  /\ row.region = EnumRegions[i]
                      /\ ~HasLengthRows(row.region) =>
                             /\ row.sw_prompt_length = Zero
                             /\ row.sw_completion_length = Zero
                             /\ row.sw_cost_index = Zero
                      /\ ~HasRequestRows(row.region) =>
                             /\ row.level0_sw_pct = Zero
                             /\ row.total_sw_requests = 0
                             /\ row.level0_sw_requests = 0

\* A file was written although one region has no efficiency rows and one
\* has no request rows.
C9_Witness ==
    /\ bpc = "done"
    /\ inputs_file.written
    /\ \E r \in Range(EnumRegions) : ~HasLengthRows(r)
    /\ \E r \in Range(EnumRegions) : ~HasRequestRows(r)

\* C10: when the collaboration dataset has no collaboration_pct row for one
\* of validation, task iteration or learning in an enumerated region,
\* extract_collaboration_metrics fails (IndexError), nothing of it is kept,
\* and regional_inputs.csv is never written.
C10_MissingCategoryFails ==
    /\ [](~CollabComplete =>
              /\ bpc \in {"new", "failed"}
              /\ ~inputs_file.written
              /\ inputs_file.rows = <<>>
              /\ collab_metrics = EmptyDict)
    /\ [][(~CollabComplete /\ bpc = "new") =>
              (bpc' = "failed" /\ berror' = "IndexError")]_vars

\* The run failed on a category missing from a region other than the first
\* of the list, and no file exists.
C10_Witness ==
    /\ bpc = "failed"
    /\ berror = "IndexError"
    /\ ~inputs_file.written
    /\ \A c \in {"validation", "task iteration", "learning"} :
           HasCollab(EnumRegions[1], c)
    /\ ~HasCollab(EnumRegions[3], "learning")

\* Sum of the request_count values of region r in the requests file, at the
\* levels in L.
RequestCount(r, L) ==
    LET I == {i \in 1..Len(requests_csv) :
                 /\ requests_csv[i].region = r
                 /\ requests_csv[i].variable = "request_count"
                 /\ requests_csv[i].level \in L}
    IN  FSum([i \in I |-> requests_csv[i].value], I)

RequestLevels == {requests_csv[i].level : i \in 1..Len(requests_csv)}

ComplexityExtracted == bpc \in {"complexity", "done"}

\* C26: for each region, total_sw_requests is the sum of the region's
\* request counts at all levels and level0_sw_requests the sum of those at
\* level 0, counting only count rows; level0_sw_pct is their quotient times
\* 100, and 0 when the total is 0.
C26_Original ==
    ComplexityExtracted =>
        \A r \in RegionSet :
            LET m == complexity_metrics[r]
                total == RequestCount(r, RequestLevels)
                level0 == RequestCount(r, {0})
            IN  /\ m.total_sw_requests = total
                /\ m.level0_sw_requests = level0
                /\ IF total = 0 THEN m.level0_sw_pct = Zero
                   ELSE m.level0_sw_pct[1] * total = 100 * level0 * m.level0_sw_pct[2]

\* Sum of the values of variable v over the Software_Development rows of
\* region r in the length file.
SoftwareVolume(r, v) ==
    LET I == {i \in 1..Len(length_csv) :
                 /\ length_csv[i].region = r
                 /\ length_csv[i].domain = "Software_Development"
                 /\ length_csv[i].variable = v}
    IN  FSum([i \in I |-> length_csv[i].value], I)

EfficiencyExtracted == bpc \in {"efficiency", "complexity", "done"}

\* index = volume / baseline over the rationals, and exactly 0 when the
\* baseline is 0
IsEfficiencyIndex(index, volume, baseline) ==
    IF baseline = 0 THEN index = Zero
    ELSE index[1] * baseline = volume * index[2]

\* C27: for each region, sw_prompt_length, sw_completion_length and
\* sw_cost_index are the sums of prompt_tokens_complexity_volume,
\* completion_tokens_complexity_volume and cost_complexity_volume over the
\* region's Software_Development rows, each divided by the sum of
\* onet_task_count over the same rows; when that baseline sum is 0 all three
\* are exactly 0 and the extraction does not fail.
C27_EfficiencyIndices ==
    /\ EfficiencyExtracted =>
           \A r \in RegionSet :
               LET m == efficiency_metrics[r]
                   baseline == SoftwareVolume(r, "onet_task_count")
               IN  /\ IsEfficiencyIndex(m.sw_prompt_length,
                          SoftwareVolume(r, "prompt_tokens_complexity_volume"),
                          baseline)
                   /\ IsEfficiencyIndex(m.sw_completion_length,
                          SoftwareVolume(r, "completion_tokens_complexity_volume"),
                          baseline)
                   /\ IsEfficiencyIndex(m.sw_cost_index,
                          SoftwareVolume(r, "cost_complexity_volume"),
                          baseline)
    /\ bpc = "failed" => efficiency_metrics = EmptyDict

\* The last region has Software_Development volumes over a zero baseline and
\* got three indices 0, while the first region got 2/3, 5/3 and 1/3.
C27_Witness ==
    /\ EfficiencyExtracted
    /\ SoftwareVolume(EnumRegions[5], "onet_task_count") = 0
    /\ SoftwareVolume(EnumRegions[5], "prompt_tokens_complexity_volume") > 0
    /\ efficiency_metrics[EnumRegions[5]] =
           [sw_prompt_length |-> Zero, sw_completion_length |-> Zero,
            sw_cost_index |-> Zero]
    /\ efficiency_metrics[EnumRegions[1]] =
           [sw_prompt_length |-> Rat(2, 3), sw_completion_length |-> Rat(5, 3),
            sw_cost_index |-> Rat(1, 3)]

-----------------------------------------------------------------------------
(* Request Aggregator (Archive/scripts/regional_request_aggregator.py).    *)

\* Largest number of rows of claude.csv besides the country usage rows.
MaxRequestRows == 2

\* usage_count values offered for each country's country-facet row;
\* -1 stands for "the file has no such row".
RequestWeightChoices == [g \in Geos |->
    CASE g = "a" -> {-1, 0, 1}
      [] g = "b" -> {-1, 0, 3}
      [] OTHER   -> {-1, 2}]

RequestRowSpace ==
    {Row(g, "request", 0, "request_pct", "x", x) : g \in Geos, x \in PctValues}
    \cup {Row("a", "request", 0, "request_count", "x", 50),
          Row("a", "onet_task", 0, "onet_task_pct", "x", 50)}

RequestSeqs == UNION {[1..n -> RequestRowSpace] : n \in 0..MaxRequestRows}

\* extract_country_usage_weights: the usage_count of each country, or the
\* weight 1 for every country of the data when there is no such row.
RequestWeightsOf(data) ==
    LET country_data == SelectSeq(data, LAMBDA r :
                            r.facet = "country" /\ r.variable = "usage_count")
        last(g) == CHOOSE j \in 1..Len(country_data) :
                       /\ country_data[j].geo_id = g
                       /\ \A k \in j + 1..Len(country_data) :
                              country_data[k].geo_id # g
    IN  IF country_data = <<>>
        THEN [g \in {data[j].geo_id : j \in 1..Len(data)} |-> 1]
        ELSE [g \in {country_data[j].geo_id : j \in 1..Len(country_data)} |->
                 country_data[last(g)].value]

\* country_weights.get(country, 1.0)
RequestWeightGet(cw, g) == IF g \in DOMAIN cw THEN cw[g] ELSE 1

\* ','.join(sorted(set(countries))) as the sorted list of the countries
SortedCountries(countries) ==
    SelectSeq(<<"a", "b", "c">>, LAMBDA g : g \in Range(countries))

\* The aggregated_value and calculation_method of one group.
RequestGroupValue(variable, group_rows, cw) ==
    LET values == Map(group_rows, LAMBDA r : r.value)
        total_weight ==
            Sum(Map(group_rows, LAMBDA r : RequestWeightGet(cw, r.geo_id)))
        weighted_sum ==
            Sum(Map(group_rows,
                    LAMBDA r : r.value * RequestWeightGet(cw, r.geo_id)))
    IN  IF EndsWithCount(variable)
        THEN [value |-> RInt(Sum(values)), method |-> "sum"]
        ELSE [value |-> IF total_weight > 0
                        THEN Rat(weighted_sum, total_weight)
                        ELSE Rat(Sum(values), Len(values)),
              method |-> "weighted_average"]

\* sum(country_weights.values()) if country_weights else the number of
\* countries of the request data
TotalCountryWeight(request_rows, cw) ==
    IF DOMAIN cw # {} THEN DictTotal(cw)
    ELSE Cardinality({request_rows[j].geo_id : j \in 1..Len(request_rows)})

\* One iteration of `for group_key, group_rows in grouped_data.items()`;
\* called with a non-zero total country weight.
RequestGroupRecord(key, request_rows, cw) ==
    LET group_rows == SelectSeq(request_rows, LAMBDA r :
            <<r.region, r.level, r.variable, r.cluster_name>> = key)
        gv == RequestGroupValue(key[3], group_rows, cw)
        total_weight ==
            Sum(Map(group_rows, LAMBDA r : RequestWeightGet(cw, r.geo_id)))
    IN  [region |-> key[1], facet |-> "request", level |-> key[2],
         variable |-> key[3], cluster_name |-> key[4], value |-> gv.value,
         calculation_method |-> gv.method,
         contributing_countries |->
             SortedCountries(Map(group_rows, LAMBDA r : r.geo_id)),
         regional_weight |->
             Rat(total_weight, TotalCountryWeight(request_rows, cw))]

\* aggregate_request_data_by_region: one record per (region, level, variable,
\* cluster_name) group, in the order the groups first appear; the division
\* by a total country weight of 0 raises in the first iteration.
AggregateRequests(request_rows, cw) ==
    LET keys == Dedup(Map(request_rows, LAMBDA r :
                    <<r.region, r.level, r.variable, r.cluster_name>>))
    IN  IF request_rows # <<>> /\ TotalCountryWeight(request_rows, cw) = 0
        THEN [ok |-> FALSE, rows |-> <<>>]
        ELSE [ok |-> TRUE,
              rows |-> Map(keys, LAMBDA k :
                           RequestGroupRecord(k, request_rows, cw))]

NoRequestFile == [written |-> FALSE, rows |-> <<>>]

\* main() before step 1, with claude.csv on disk.
RequestInit ==
    /\ request_csv \in
           {CountryRows(w) \o f :
               w \in {w \in [Geos -> {-1, 0, 1, 2, 3}] :
                         \A g \in Geos : w[g] \in RequestWeightChoices[g]},
               f \in RequestSeqs}
    /\ all_data = <<>>
    /\ request_data = <<>>
    /\ request_weights = EmptyDict
    /\ regional_data = <<>>
    /\ request_out = NoRequestFile
    /\ rerror = "none"
    /\ rpc = "new"

\* The script is not run in a run of another component.
RequestIdle ==
    /\ request_csv = <<>>
    /\ all_data = <<>>
    /\ request_data = <<>>
    /\ request_weights = EmptyDict
    /\ regional_data = <<>>
    /\ request_out = NoRequestFile
    /\ rerror = "none"
    /\ rpc = "idle"

\* Step 1 of main().
load_and_validate_data ==
    /\ rpc = "new"
    /\ IF request_csv = <<>>
       THEN /\ rpc' = "failed"
            /\ rerror' = "ValueError: No data loaded from file"
            /\ UNCHANGED <<all_data, request_data>>
       ELSE /\ all_data' = request_csv
            /\ request_data' = SelectSeq(request_csv,
                                         LAMBDA r : r.facet = "request")
            /\ rpc' = "loaded"
            /\ rerror' = rerror
    /\ UNCHANGED <<request_csv, request_weights, regional_data, request_out>>
    /\ UNCHANGED notRequest

\* Step 2 of main().
extract_country_usage_weights ==
    /\ rpc = "loaded"
    /\ request_weights' = RequestWeightsOf(all_data)
    /\ rpc' = "weighted"
    /\ UNCHANGED <<request_csv, all_data, request_data, regional_data,
                   request_out, rerror>>
    /\ UNCHANGED notRequest

\* Steps 3 and 4 of main().
aggregate_request_data_by_region ==
    /\ rpc = "weighted"
    /\ LET res == AggregateRequests(request_data, request_weights)
       IN  IF request_data = <<>>
           THEN /\ rpc' = "failed"
                /\ rerror' = "ValueError: No request facet data found in source file"
                /\ regional_data' = regional_data
           ELSE IF ~res.ok
           THEN /\ rpc' = "failed"
                /\ rerror' = "ZeroDivisionError"
                /\ regional_data' = regional_data
           ELSE /\ rpc' = "aggregated"
                /\ rerror' = rerror
                /\ regional_data' = res.rows
    /\ UNCHANGED <<request_csv, all_data, request_data, request_weights,
                   request_out>>
    /\ UNCHANGED notRequest

\* Step 5 of main().
save_to_csv ==
    /\ rpc = "aggregated"
    /\ request_out' = [written |-> TRUE, rows |-> regional_data]
    /\ rpc' = "saved"
    /\ UNCHANGED <<request_csv, all_data, request_data, request_weights,
                   regional_data, rerror>>
    /\ UNCHANGED notRequest

RequestNext ==
    \/ load_and_validate_data
    \/ extract_country_usage_weights
    \/ aggregate_request_data_by_region
    \/ save_to_csv

-----------------------------------------------------------------------------
(* Properties of the Request Aggregator.                                   *)

\* Indexes of the request rows in the group of record r.
RequestGroupIdx(r) ==
    {j \in 1..Len(request_data) :
        /\ request_data[j].region = r.region
        /\ request_data[j].level = r.level
        /\ request_data[j].variable = r.variable
        /\ request_data[j].cluster_name = r.cluster_name}

\* Country usage_count rows of the file, which make up the weight table.
HasUsageRow(g) ==
    \E j \in 1..Len(request_csv) :
        /\ request_csv[j].facet = "country"
        /\ request_csv[j].variable = "usage_count"
        /\ request_csv[j].geo_id = g

UsageOf(g) ==
    (CHOOSE row \in Range(request_csv) :
        row.facet = "country" /\ row.variable = "usage_count"
            /\ row.geo_id = g).value

\* Rows of the group whose country has a strictly positive usage_count.
RequestPositiveIdx(r) ==
    {j \in RequestGroupIdx(r) :
        /\ HasUsageRow(request_data[j].geo_id)
        /\ UsageOf(request_data[j].geo_id) > 0}

\* C28: every record of a percentage variable is the weighted average of
\* the rows of its group whose country has a strictly positive entry in the
\* weight table; a country with a zero or missing entry enters neither the
\* numerator nor the denominator, and is never given a weight of its own.
C28_Original ==
    \A r \in Range(regional_data) :
        EndsWithPct(r.variable) =>
            LET I == RequestPositiveIdx(r)
                W == FSum([j \in I |-> UsageOf(request_data[j].geo_id)], I)
                N == FSum([j \in I |-> request_data[j].value
                                           * UsageOf(request_data[j].geo_id)], I)
            IN  /\ W > 0
                /\ r.value[1] * W = N * r.value[2]

-----------------------------------------------------------------------------
(* Specifications: one per component, the others idle.                     *)

Init ==
    /\ AggInit
    /\ NormIdle
    /\ ScoreIdle
    /\ BuildIdle
    /\ RequestIdle

Spec == Init /\ [][AggNext]_vars

\* The aggregator with run_pipeline called again after it has returned.
NextRerun ==
    \/ AggNext
    \/ run_pipeline_again

SpecRerun == Init /\ [][NextRerun]_vars

InitNorm ==
    /\ NormInit
    /\ AggIdle
    /\ ScoreIdle
    /\ BuildIdle
    /\ RequestIdle

SpecNorm == InitNorm /\ [][NormNext]_vars

InitScore ==
    /\ ScoreInit
    /\ AggIdle
    /\ NormIdle
    /\ BuildIdle
    /\ RequestIdle

SpecScore == InitScore /\ [][ScoreNext]_vars

InitBuild ==
    /\ BuildInit
    /\ AggIdle
    /\ NormIdle
    /\ ScoreIdle
    /\ RequestIdle

SpecBuild == InitBuild /\ [][BuildNext]_vars

InitRequest ==
    /\ RequestInit
    /\ AggIdle
    /\ NormIdle
    /\ ScoreIdle
    /\ BuildIdle

SpecRequest == InitRequest /\ [][RequestNext]_vars

=============================================================================
